---- MODULE Spec2Model ----
(***************************************************************************)
(* Model of the execution environment of MSWE-agent:                       *)
(*   src/sweagent/environment/utils.py    (command reader, containers)     *)
(*   src/sweagent/environment/swe_env.py  (SWEEnv: communicate, step, ...) *)
(*                                                                         *)
(* Text is modelled as a sequence of tokens.  The two end-marker sentinels *)
(* are one token each, a newline is the token NL, a decimal digit is a     *)
(* token, and every other token stands for a piece of text that contains   *)
(* neither a sentinel nor a line break.                                    *)
(***************************************************************************)
EXTENDS Integers, Sequences, FiniteSets, TLC

VARIABLES
    rd,      \* locals of one call of read_with_timeout_experimental, the clock, the pipe it reads
    self,    \* the fields of the SWEEnv object
    docker,  \* the container engine: state of the session's container
    shell,   \* the bash process behind self.container: stdin backlog, stdout pipe
    last,    \* what the last operation returned or raised
    trace,   \* the effects of the last operation on the shell and the engine, in order
    call     \* one call of a function without side effects: its arguments and its result

vars == <<rd, self, docker, shell, last, trace, call>>

(***************************************************************************)
(* Tokens                                                                  *)
(***************************************************************************)
NL == "\n"
CR == "\r"
PROCESS_DONE_MARKER_START == "///PROCESS-DONE:"
PROCESS_DONE_MARKER_END == ":PROCESS-DONE///"
\* a byte that is not valid UTF-8
BADBYTE == "\\xff"

\* Python's None, where a string may stand
None == <<"<None>">>

Digits == {"0", "1", "2", "3", "4", "5", "6", "7", "8", "9"}

DigitVal(d) ==
    CASE d = "0" -> 0 [] d = "1" -> 1 [] d = "2" -> 2 [] d = "3" -> 3 [] d = "4" -> 4
      [] d = "5" -> 5 [] d = "6" -> 6 [] d = "7" -> 7 [] d = "8" -> 8 [] d = "9" -> 9

DigitOf(n) ==
    CASE n = 0 -> "0" [] n = 1 -> "1" [] n = 2 -> "2" [] n = 3 -> "3" [] n = 4 -> "4"
      [] n = 5 -> "5" [] n = 6 -> "6" [] n = 7 -> "7" [] n = 8 -> "8" [] n = 9 -> "9"

\* a text of 10,000 characters without line break, and one of 9,986 characters
K == "<10,000 characters>"
J == "<9,986 characters>"
\* 100 bytes of valid UTF-8 without line break
H == "<100 bytes>"
\* the markers of a submission
SUB_OPEN == "<<SUBMISSION||"
SUB_CLOSE == "||SUBMISSION>>"

\* number of bytes (characters) a token stands for
ByteLen(t) ==
    CASE t \in {PROCESS_DONE_MARKER_START, PROCESS_DONE_MARKER_END} -> 16
      [] t \in {SUB_OPEN, SUB_CLOSE} -> 14
      [] t = K -> 10000
      [] t = H -> 100
      [] t = J -> 9986
      [] t = "..." -> 3
      [] OTHER -> 1

(***************************************************************************)
(* Python string operations on token sequences                             *)
(***************************************************************************)
Min(a, b) == IF a <= b THEN a ELSE b

Max(a, b) == IF a >= b THEN a ELSE b

Contains(s, t) == \E i \in 1..Len(s) : s[i] = t

\* index of the first occurrence of token t in s, 0 when there is none
Find(s, t) ==
    IF Contains(s, t) THEN CHOOSE i \in 1..Len(s) : s[i] = t /\ \A j \in 1..(i - 1) : s[j] # t
    ELSE 0

StartsWith(s, p) == Len(s) >= Len(p) /\ SubSeq(s, 1, Len(p)) = p

EndsWith(s, p) == Len(s) >= Len(p) /\ SubSeq(s, Len(s) - Len(p) + 1, Len(s)) = p

\* s with every occurrence of the token sequence p replaced by r (str.replace)
RECURSIVE Replace(_, _, _)
Replace(s, p, r) ==
    IF s = <<>> \/ p = <<>> THEN s
    ELSE IF StartsWith(s, p) THEN r \o Replace(SubSeq(s, Len(p) + 1, Len(s)), p, r)
    ELSE <<Head(s)>> \o Replace(Tail(s), p, r)

Whitespace == {NL, CR, " "}

RECURSIVE lstrip(_)
lstrip(s) == IF s # <<>> /\ Head(s) \in Whitespace THEN lstrip(Tail(s)) ELSE s

RECURSIVE rstrip(_)
rstrip(s) ==
    IF s # <<>> /\ s[Len(s)] \in Whitespace THEN rstrip(SubSeq(s, 1, Len(s) - 1)) ELSE s

strip(s) == lstrip(rstrip(s))

\* str.splitlines: a line ends at NL or at CR; no empty last line after a final line break
RECURSIVE splitlines(_)
splitlines(s) ==
    IF s = <<>> THEN <<>>
    ELSE LET brk == {i \in 1..Len(s) : s[i] \in {NL, CR}}
         IN  IF brk = {} THEN <<s>>
             ELSE LET i == CHOOSE x \in brk : \A y \in brk : x <= y
                  IN  <<SubSeq(s, 1, i - 1)>> \o splitlines(SubSeq(s, i + 1, Len(s)))

\* sep.join(lines)
RECURSIVE join(_, _)
join(lines, sep) ==
    IF lines = <<>> THEN <<>>
    ELSE IF Len(lines) = 1 THEN lines[1]
    ELSE lines[1] \o sep \o join(Tail(lines), sep)

\* buffer.decode("utf-8", errors="backslashreplace").replace("\r\n", "\n"):
\* an invalid byte is kept as its escape, CR LF becomes LF
decode(buffer) == Replace(buffer, <<CR, NL>>, <<NL>>)

\* str.isdigit
isdigit(s) == s # <<>> /\ \A i \in 1..Len(s) : s[i] \in Digits

\* the value of a digit string
RECURSIVE DecimalValue(_)
DecimalValue(s) ==
    IF s = <<>> THEN 0 ELSE 10 * DecimalValue(SubSeq(s, 1, Len(s) - 1)) + DigitVal(s[Len(s)])

\* int(s) succeeds: surrounding whitespace and one sign are accepted
int_accepts(s) ==
    LET t == strip(s)
    IN  \/ isdigit(t)
        \/ t # <<>> /\ Head(t) \in {"-", "+"} /\ isdigit(Tail(t))

\* int(s), for an s that int accepts
int(s) ==
    LET t == strip(s)
    IN  IF isdigit(t) THEN DecimalValue(t)
        ELSE IF Head(t) = "-" THEN 0 - DecimalValue(Tail(t))
        ELSE DecimalValue(Tail(t))

\* str(n) of a natural number
RECURSIVE str(_)
str(n) == IF n < 10 THEN <<DigitOf(n)>> ELSE str(n \div 10) \o <<DigitOf(n % 10)>>

(***************************************************************************)
(* utils.py: the end-marker reader                                         *)
(***************************************************************************)
\* PROCESS_DONE_REGEX.search(line): START(.+?)END, leftmost start, shortest group of
\* at least one character; the group, or <<>> when there is no match
PROCESS_DONE_REGEX_search(line) ==
    LET starts == {i \in 1..Len(line) :
                      /\ line[i] = PROCESS_DONE_MARKER_START
                      /\ \E j \in (i + 2)..Len(line) : line[j] = PROCESS_DONE_MARKER_END}
    IN  IF starts = {} THEN <<>>
        ELSE LET i == CHOOSE x \in starts : \A y \in starts : x <= y
                 ends == {j \in (i + 2)..Len(line) : line[j] = PROCESS_DONE_MARKER_END}
                 j == CHOOSE x \in ends : \A y \in ends : x <= y
             IN  SubSeq(line, i + 1, j - 1)

\* number of bytes of a token sequence
RECURSIVE len_bytes(_)
len_bytes(s) == IF s = <<>> THEN 0 ELSE ByteLen(Head(s)) + len_bytes(Tail(s))

\* byte offsets of the invalid bytes of buffer
InvalidOffsets(buffer) ==
    {len_bytes(SubSeq(buffer, 1, i - 1)) : i \in {x \in 1..Len(buffer) : buffer[x] = BADBYTE}}

\* the loop of _check_for_too_many_non_unicode_bytes: e.start is an offset into
\* the slice buffer[start_byte:]
RECURSIVE check_loop(_, _, _)
check_loop(buffer, remaining, start_byte) ==
    IF remaining = 0 THEN TRUE
    ELSE LET errs == {o \in InvalidOffsets(buffer) : o >= start_byte}
         IN  IF errs = {} THEN FALSE
             ELSE LET first == CHOOSE x \in errs : \A y \in errs : x <= y
                  IN  check_loop(buffer, remaining - 1, (first - start_byte) + 1)

\* TRUE when _check_for_too_many_non_unicode_bytes raises UnicodeError
\* (DECODED_BUFFER_FAILURE_THRESHOLD = 0.1)
check_for_too_many_non_unicode_bytes(buffer) ==
    check_loop(buffer, len_bytes(buffer) \div 10, 0)

\* the last line of lines (searched in reverse) on which the regex matches, or 0
LastMarkerLine(lines) ==
    LET hits == {i \in 1..Len(lines) : PROCESS_DONE_REGEX_search(lines[i]) # <<>>}
    IN  IF hits = {} THEN 0 ELSE CHOOSE x \in hits : \A y \in hits : x >= y

IsMarkerLine(line) == StartsWith(line, <<PROCESS_DONE_MARKER_START>>)

\* a body that keeps the marker lines
body_of_keeping_markers(decoded) == join(splitlines(decoded), <<NL>>)

\* body: the decoded lines that do not start with the start sentinel, joined by "\n"
body_of(decoded) ==
    LET lines == splitlines(decoded)
        kept == SelectSeq(lines, LAMBDA l : ~IsMarkerLine(l))
    IN  join(kept, <<NL>>)

Result(kind, body, exit_code) == [kind |-> kind, body |-> body, exit_code |-> exit_code]

\* utils.py 295: the value returned, the marker with its exit code removed
\* from the body
return_value(body, exit_code) ==
    Result("ok",
           Replace(body,
                   <<PROCESS_DONE_MARKER_START>> \o exit_code \o <<PROCESS_DONE_MARKER_END>>,
                   <<>>),
           exit_code)

\* utils.py 286-295: the search of the exit code over the reversed lines
search_exit_code(body, lines, hit) ==
    IF lines = <<>> THEN Result("UnboundLocalError", <<>>, <<>>)
    ELSE IF hit = 0 THEN Result("ValueError", <<>>, <<>>)
    ELSE return_value(body, PROCESS_DONE_REGEX_search(lines[hit]))

\* utils.py 273-295, given the body and the lines of the decoded buffer
raise_or_return(buffer, body, lines, process_done, poll, current_time, end_time, end_time_no_output) ==
    IF poll THEN Result("RuntimeError", body, <<>>)
    ELSE IF ~process_done /\ current_time >= Min(end_time, end_time_no_output)
    THEN IF current_time >= end_time
         THEN Result("TimeoutError", body, <<>>)
         ELSE Result("NoOutputTimeoutError", body, <<>>)
    ELSE IF check_for_too_many_non_unicode_bytes(buffer)
    THEN Result("UnicodeError", <<>>, <<>>)
    ELSE search_exit_code(body, lines, LastMarkerLine(lines))

\* read_with_timeout_experimental after its loop (lines 270-295).
\* poll: the subprocess has exited.  Returns the body and the exit-code text, or
\* the exception raised (with the body it carries).
read_after_loop(buffer, process_done, poll, current_time, end_time, end_time_no_output) ==
    raise_or_return(buffer, body_of(decode(buffer)), splitlines(decode(buffer)),
                    process_done, poll, current_time, end_time, end_time_no_output)

\* swe_env.py 648-649: self.returncode = int(exit_code); <<>> stands for None
returncode_of(res) ==
    IF res.kind = "ok" /\ int_accepts(res.exit_code) THEN <<int(res.exit_code)>> ELSE <<>>

\* the line the suffix `echo ///PROCESS-DONE:$?:PROCESS-DONE///` prints for exit status k
MarkerLine(k) ==
    <<PROCESS_DONE_MARKER_START>> \o str(k) \o <<PROCESS_DONE_MARKER_END, NL>>

(***************************************************************************)
(* SpecReader: one call of read_with_timeout_experimental against a shell  *)
(* that runs one command and then the end-marker echo.  The shell writes   *)
(* its bytes one token at a time while the reader polls, so every split of *)
(* the stream into reads occurs.  The clock is discrete; the reader polls  *)
(* much faster than the clock ticks (sleeps of 10 ms against deadlines of  *)
(* seconds), so a tick happens only when the reader has drained the pipe.  *)
(* The command either prints a finite text and ends, or never ends and     *)
(* keeps printing: at most MaxBurst tokens between two ticks of the clock. *)
(***************************************************************************)
MaxTime == 5

MaxBurst == 1

\* the i-th token a command that never ends prints (the lines of `yes a`)
EndlessToken(i) == IF i % 2 = 1 THEN "a" ELSE NL

\* (timeout_duration, no_output_timeout_duration)
TimeoutPairs == {<<2, 3>>, <<2, 2>>, <<4, 2>>}

\* what the command prints
Outputs ==
    { <<>>,
      <<"a">>,
      <<"alive", NL>>,
      <<"0", NL, "1", NL, "2", NL>>,
      <<"a", CR, NL>>,
      <<PROCESS_DONE_MARKER_START, "x", PROCESS_DONE_MARKER_END, NL>> }

ExitCodes == {0, 127}

Unused == [none |-> TRUE]

NoResult == Result("pending", <<>>, <<>>)

InitReader ==
    /\ \E out \in Outputs, k \in ExitCodes, tp \in TimeoutPairs, endless \in BOOLEAN :
          rd = [ cmd_out |-> IF endless THEN <<>> ELSE out, k |-> k,
                 timeout_duration |-> tp[1], no_output_timeout_duration |-> tp[2],
                 to_emit |-> IF endless THEN <<>> ELSE out \o MarkerLine(k),
                 endless |-> endless, emitted |-> 0, burst |-> 0,
                 pipe |-> <<>>, poll |-> FALSE,
                 now |-> 0, start_time |-> 0,
                 end_time |-> tp[1], end_time_no_output |-> tp[2],
                 buffer |-> <<>>, process_done |-> FALSE, pc |-> "loop",
                 result |-> NoResult,
                 \* history: when the last chunk was read, when the loop was left, when
                 \* current_time was taken, whether the command finished before the deadlines
                 last_chunk |-> 0, exit_time |-> 0, current_time |-> 0, in_time |-> FALSE ]
    /\ self = Unused /\ docker = Unused /\ shell = Unused /\ last = Unused /\ trace = <<>>
    /\ call = Unused

\* a reader that never moves its no-output deadline
reset_no_output_never(now, no_output_timeout_duration, end_time_no_output) ==
    end_time_no_output

\* line 263: the no-output deadline after a non-empty read at time now
reset_no_output(now, no_output_timeout_duration, end_time_no_output) ==
    now + no_output_timeout_duration

\* a reader that leaves its loop at the no-output deadline only
loop_deadline_no_output_only(end_time, end_time_no_output) == end_time_no_output

\* line 255: the time at which the while loop is left
loop_deadline(end_time, end_time_no_output) == Min(end_time, end_time_no_output)

\* the shell writes the next token of its output to the pipe
ShellWrite ==
    /\ rd.pc # "done" /\ ~rd.poll /\ rd.to_emit # <<>>
    /\ rd' = [rd EXCEPT !.to_emit = Tail(@), !.pipe = @ \o <<Head(rd.to_emit)>>,
                         !.in_time = IF Len(rd.to_emit) = 1
                                     THEN /\ rd.now < Min(rd.end_time, rd.end_time_no_output)
                                          /\ rd.pc = "loop" \/ rd.process_done
                                     ELSE @]
    /\ UNCHANGED <<self, docker, shell, last, trace, call>>

\* a command that never ends writes one more token to the pipe
ShellFlood ==
    /\ rd.pc # "done" /\ ~rd.poll /\ rd.endless /\ rd.burst < MaxBurst
    /\ rd' = [rd EXCEPT !.pipe = @ \o <<EndlessToken(rd.emitted + 1)>>,
                         !.emitted = @ + 1, !.burst = @ + 1]
    /\ UNCHANGED <<self, docker, shell, last, trace, call>>

\* the shell subprocess exits (container.poll() is not None from now on)
ShellExit ==
    /\ rd.pc # "done" /\ ~rd.poll
    /\ rd' = [rd EXCEPT !.poll = TRUE, !.to_emit = <<>>]
    /\ UNCHANGED <<self, docker, shell, last, trace, call>>

Tick ==
    /\ rd.pc # "done" /\ rd.now < MaxTime
    /\ rd.pc = "loop" => /\ rd.pipe = <<>>
                         /\ rd.now < loop_deadline(rd.end_time, rd.end_time_no_output)
    /\ rd' = [rd EXCEPT !.now = @ + 1, !.burst = 0]
    /\ UNCHANGED <<self, docker, shell, last, trace, call>>

\* one iteration of the while loop, lines 255-268
ReadLoop ==
    /\ rd.pc = "loop"
    /\ IF rd.now < loop_deadline(rd.end_time, rd.end_time_no_output)
       THEN IF rd.pipe # <<>>
            THEN LET buffer == rd.buffer \o rd.pipe
                     seen == Contains(decode(buffer), PROCESS_DONE_MARKER_START)
                 IN  rd' = [rd EXCEPT
                         !.pipe = <<>>, !.buffer = buffer,
                         !.end_time_no_output =
                             reset_no_output(rd.now, rd.no_output_timeout_duration, @),
                         !.last_chunk = rd.now,
                         !.process_done = seen,
                         !.exit_time = rd.now,
                         !.pc = IF seen THEN "post" ELSE "loop"]
            ELSE UNCHANGED rd
       ELSE rd' = [rd EXCEPT !.pc = "post", !.exit_time = rd.now]
    /\ UNCHANGED <<self, docker, shell, last, trace, call>>

\* lines 270-295
ReadFinish ==
    /\ rd.pc = "post"
    /\ rd' = [rd EXCEPT
            !.pc = "done", !.current_time = rd.now,
            !.result = read_after_loop(rd.buffer, rd.process_done, rd.poll, rd.now,
                                       rd.end_time, rd.end_time_no_output)]
    /\ UNCHANGED <<self, docker, shell, last, trace, call>>

NextReader == ShellWrite \/ ShellFlood \/ ShellExit \/ Tick \/ ReadLoop \/ ReadFinish

SpecReader == InitReader /\ [][NextReader]_vars

\* SpecReaderLive: the reader is a sequential process that is never suspended
\* (its loop sleeps 10 ms and polls again), and time passes
\* ENABLED <<ReadFinish>>_vars: ReadFinish has no other guard and changes rd.pc
ReadFinishEnabled == rd.pc = "post"

\* WF_vars(ReadFinish), its enabling condition written as the state predicate above
FairReadFinish == []<>(~ReadFinishEnabled) \/ []<><<ReadFinish>>_vars

SpecReaderLive ==
    InitReader /\ [][NextReader]_vars /\ WF_vars(Tick) /\ WF_vars(ReadLoop) /\ FairReadFinish

(***************************************************************************)
(* The bash process behind self.container.                                 *)
(*                                                                         *)
(* A command line is a sequence of words.  The words the harness itself    *)
(* writes are tokens of their own; the words of agent actions are:         *)
(*   "ok"        prints a line and exits 0                                 *)
(*   "fail"      prints a line and exits 1                                 *)
(*   "'"         an unbalanced quote: a syntax error                       *)
(*   "hang"      starts a child process that never ends (sleep)            *)
(*   "make"      starts a child (make) that waits for a child of its own   *)
(*               (cc) that never ends                                      *)
(*   "spin"      a loop of shell builtins that never ends (no child)       *)
(*   "./gradlew" a build that prints a line and exits 0                    *)
(*   "printmark" prints a line holding both sentinels around the text x    *)
(*   "EOF"       as a command: not found, exit 127                         *)
(*   "submit"    prints the submission markers around a patch              *)
(***************************************************************************)
BASH_N == "/bin/bash -n <<'EOF'"
ECHO == "echo"
STATUS == "$?"

\* the suffix of _communicate_experimental, line 634
command_suffix ==
    <<ECHO, PROCESS_DONE_MARKER_START, STATUS, PROCESS_DONE_MARKER_END, NL>>

\* the pieces of s between occurrences of the token sep
RECURSIVE SplitOn(_, _)
SplitOn(s, sep) ==
    IF ~Contains(s, sep) THEN <<s>>
    ELSE <<SubSeq(s, 1, Find(s, sep) - 1)>>
            \o SplitOn(SubSeq(s, Find(s, sep) + 1, Len(s)), sep)

\* the lines bash reads from text written to its stdin
ShellLines(text) == SplitOn(text, NL)

\* what a simple command prints, its exit status, and the name of the child
\* process it blocks on ("" when it returns at once, "-" when it blocks without
\* a child, "exit" when it ends the shell), given the status of the command
\* before it
Behaviour(words, status) ==
    LET w == IF words = <<>> THEN "" ELSE words[1]
    IN  CASE w = "" -> [out |-> <<>>, code |-> status, blocks |-> ""]
          [] w = ECHO /\ Len(words) = 4 ->
                [out |-> <<words[2]>> \o str(status) \o <<words[4], NL>>, code |-> 0, blocks |-> ""]
          [] w = ECHO /\ Len(words) = 2 /\ words[2] = STATUS ->
                [out |-> str(status) \o <<NL>>, code |-> 0, blocks |-> ""]
          [] w = ECHO /\ Len(words) = 2 /\ words[2] # STATUS ->
                [out |-> <<words[2], NL>>, code |-> 0, blocks |-> ""]
          [] w = "ls" -> [out |-> <<"repo", NL>>, code |-> 0, blocks |-> ""]
          [] w = "uname -s" -> [out |-> <<"Linux", NL>>, code |-> 0, blocks |-> ""]
          [] w = "uname -m" -> [out |-> <<"x86_64", NL>>, code |-> 0, blocks |-> ""]
          [] w = "ok" -> [out |-> <<"a", NL>>, code |-> 0, blocks |-> ""]
          [] w = "fail" -> [out |-> <<"failed", NL>>, code |-> 1, blocks |-> ""]
          [] w = "./gradlew" -> [out |-> <<"built", NL>>, code |-> 0, blocks |-> ""]
          [] w = "printmark" ->
                [out |-> <<PROCESS_DONE_MARKER_START, "x", PROCESS_DONE_MARKER_END, NL>>,
                 code |-> 0, blocks |-> ""]
          [] w = "submit" ->
                [out |-> <<SUB_OPEN, "diff", NL, "+x", SUB_CLOSE, NL>>, code |-> 0, blocks |-> ""]
          [] w = "hang" -> [out |-> <<>>, code |-> 0, blocks |-> "sleep"]
          [] w = "make" -> [out |-> <<>>, code |-> 0, blocks |-> "make"]
          [] w = "spin" -> [out |-> <<>>, code |-> 0, blocks |-> "-"]
          [] w = "flood" -> [out |-> <<K, K, K, K, K>>, code |-> 0, blocks |-> "-"]
          [] w = "exit 1" -> [out |-> <<>>, code |-> 1, blocks |-> "exit"]
          [] w = "exit_forfeit" ->
                [out |-> <<"exit_forfeit: command not found", NL>>, code |-> 127, blocks |-> ""]
          [] w = "EOF" -> [out |-> <<"EOF: command not found", NL>>, code |-> 127, blocks |-> ""]
          [] w = "'" -> [out |-> <<"syntax error", NL>>, code |-> 2, blocks |-> ""]
          [] OTHER -> [out |-> <<>>, code |-> 0, blocks |-> ""]

\* bash -n on the lines of a here-document: (output, exit status)
BashN(body) ==
    IF \E i \in 1..Len(body) : Contains(body[i], "'")
    THEN [out |-> <<"syntax error", NL>>, code |-> 2]
    ELSE [out |-> <<>>, code |-> 0]

\* index of the first line of lines that is the here-document terminator, or 0
FirstEOF(lines) ==
    LET hits == {i \in 1..Len(lines) : lines[i] = <<"EOF">>}
    IN  IF hits = {} THEN 0 ELSE CHOOSE x \in hits : \A y \in hits : x <= y

Exec(line) == [op |-> "exec", text |-> line]

\* a command that fails in this container: what it prints and its exit status
Fault(cmd, out, code) == [cmd |-> <<cmd>>, out |-> out, code |-> code]

NoFault == [cmd |-> <<>>, out |-> <<>>, code |-> 0]

\* what the command line does in the shell sh
behaviour_in(sh, line) ==
    IF line # <<>> /\ line = sh.fault.cmd
    THEN [out |-> sh.fault.out, code |-> sh.fault.code, blocks |-> ""]
    ELSE Behaviour(line, sh.status)

\* the entry of the log for a command line the shell has run
ran(sh, line) ==
    IF line = sh.fault.cmd THEN [op |-> "failed", text |-> line] ELSE Exec(line)

\* bash works through the lines on its stdin: sh is the shell, log the commands
\* it has executed (marker echoes and syntax checks are not logged; a command
\* that failed for a fault of the container is logged as failed)
RECURSIVE sh_run(_, _)
sh_run(sh, log) ==
    IF ~sh.alive \/ sh.fg # "" \/ sh.stdin = <<>> THEN [sh |-> sh, log |-> log]
    ELSE LET line == Head(sh.stdin)
             rest == Tail(sh.stdin)
         IN  IF line = <<BASH_N>>
             THEN LET e == FirstEOF(rest)
                  IN  IF e = 0 THEN [sh |-> sh, log |-> log]
                      ELSE LET r == BashN(SubSeq(rest, 1, e - 1))
                           IN  sh_run([sh EXCEPT !.stdin = SubSeq(rest, e + 1, Len(rest)),
                                                 !.pipe = @ \o r.out,
                                                 !.status = r.code],
                                      log)
             ELSE IF Contains(line, ";")
             THEN sh_run([sh EXCEPT !.stdin = SplitOn(line, ";") \o rest], log)
             ELSE LET b == behaviour_in(sh, line)
                      quiet == line = <<>> \/ line[1] = ECHO
                  IN  sh_run([sh EXCEPT !.stdin = rest,
                                        !.pipe = @ \o b.out,
                                        !.status = b.code,
                                        !.fg = IF b.blocks = "exit" THEN "" ELSE b.blocks,
                                        !.alive = b.blocks # "exit"],
                             IF quiet THEN log ELSE Append(log, ran(sh, line)))

\* kill -9 of the child of the foreground command: bash reports it, sets $? to
\* 137 and goes on with its stdin
sh_kill(sh, log) ==
    IF sh.alive /\ sh.fg \notin {"", "-"}
    THEN sh_run([sh EXCEPT !.fg = "", !.status = 137, !.old = Len(sh.pipe),
                           !.pipe = @ \o <<"Killed", NL>>],
                log)
    ELSE [sh |-> sh, log |-> log]

\* kill -9 of the compiler make waits for: make reports the error and exits
\* with status 2, and bash goes on with its stdin
sh_kill_child(sh, log) ==
    IF sh.alive /\ sh.fg = "make"
    THEN sh_run([sh EXCEPT !.fg = "", !.status = 2, !.old = Len(sh.pipe),
                           !.pipe = @ \o <<"make: Error", NL>>],
                log)
    ELSE [sh |-> sh, log |-> log]

(***************************************************************************)
(* swe_env.py: SWEEnv.  An operation is computed on a bundle                *)
(*   st = [self, docker, shell, trace]                                     *)
(* (trace: the writes to the shell, the commands it ran, the exit-code     *)
(* texts parsed and the calls on the process and the container, in order)  *)
(* and yields a set of outcomes [st, exc, val, ...]: one per way the       *)
(* environment can behave (how the output is split into reads).  exc is    *)
(* the exception that leaves the operation ("" for a normal return), val   *)
(* the value returned, or args[1] of the exception when it carries one.    *)
(***************************************************************************)
LONG_TIMEOUT == 500
AGENT_ACTION_TIMEOUT == 50
AGENT_ACTION_NO_OUTPUT_TIMEOUT == AGENT_ACTION_TIMEOUT
DEFAULT_TIMEOUT == 25

Outcome(st, exc, val) ==
    [st |-> st, exc |-> exc, val |-> val, exit_code |-> <<>>,
     done |-> FALSE, exit_status |-> <<>>, submission |-> <<>>]

\* a handler of TimeoutError that lets the subclass pass
IsTimeout_total_only(exc) == exc = "TimeoutError"

\* utils.py 30: NoOutputTimeoutError derives from TimeoutError
IsTimeout(exc) == exc \in {"TimeoutError", "NoOutputTimeoutError"}

\* sequencing: go on with F after a normal return, pass an exception on
Then(S, F(_)) == UNION {IF o.exc = "" THEN F(o) ELSE {o} : o \in S}

Effect(op, text) == [op |-> op, text |-> text]

Alive(st) == st.shell.alive

\* os.write(self.container.stdin.fileno(), cmd) on a running shell, which then
\* works through what it was given; a container that was started for this
\* shell ends with it
shell_ran(st, r) ==
    [st EXCEPT !.shell = r.sh, !.trace = r.log,
               !.docker.state = IF r.sh.alive \/ st.self.persistent THEN @
                                ELSE IF st.docker.auto_remove THEN "removed"
                                ELSE "exited"]

os_write(st, cmd) ==
    shell_ran(st, sh_run([st.shell EXCEPT
                              !.stdin = @ \o SelectSeq(ShellLines(cmd), LAMBDA l : l # <<>>),
                              !.old = Len(st.shell.pipe)],
                         Append(st.trace, Effect("write", cmd))))

\* What a read can return.  shell.old counts the tokens that were in the pipe
\* before the latest write or kill; the output the shell has produced since
\* then reaches the pipe some time later.  A read that ends a loop returns the
\* old tokens and then none of the new ones (they have not arrived), all of
\* them, or, as a split, a part of them; a session sees at most MaxSplits
\* splits.  from: the least number of tokens with which the loop can end.
MaxSplits == 1

Cuts(st, from) ==
    {c \in from..Len(st.shell.pipe) :
        \/ c = Len(st.shell.pipe)
        \/ c = st.shell.old
        \/ c > st.shell.old /\ st.shell.splits < MaxSplits}

\* the shell after a read of the first c tokens of its pipe
after_read(st, c) ==
    [st EXCEPT !.shell.pipe = SubSeq(@, c + 1, Len(@)),
               !.shell.old = IF c < @ THEN @ - c ELSE 0,
               !.shell.splits = IF c < Len(st.shell.pipe) /\ c # st.shell.old
                                THEN @ + 1 ELSE @]

\* the outcome of a call of the reader that ended with res
reader_outcome(st, res) ==
    [Outcome(st, IF res.kind = "ok" THEN "" ELSE res.kind, res.body)
        EXCEPT !.exit_code = res.exit_code]

\* utils.py 213-295 for the session: the loop reads what the shell has written;
\* with a start sentinel in it the loop ends at some read that holds the first
\* one (the rest stays in the pipe); without one the shell is stuck in a
\* command that prints nothing more, and the loop ends at the first deadline
read_with_timeout_experimental(st, timeout_duration, no_output_timeout_duration) ==
    {reader_outcome(after_read(st, c),
                    read_after_loop(SubSeq(st.shell.pipe, 1, c),
                                    Alive(st) /\ Contains(st.shell.pipe, PROCESS_DONE_MARKER_START),
                                    ~Alive(st),
                                    Min(timeout_duration, no_output_timeout_duration),
                                    timeout_duration, no_output_timeout_duration))
     : c \in IF Alive(st) /\ Contains(st.shell.pipe, PROCESS_DONE_MARKER_START)
             THEN Cuts(st, Max(st.shell.old, Find(st.shell.pipe, PROCESS_DONE_MARKER_START)))
             ELSE {Len(st.shell.pipe)}}

\* the process list of the container, as `ps -eo pid,comm` prints it
ps_list(st) ==
    <<[pid |-> 1, comm |-> "bash"]>>
        \o (IF st.self.persistent THEN <<[pid |-> 7, comm |-> "bash"]>> ELSE <<>>)
        \o (IF Alive(st) /\ st.shell.fg \notin {"", "-"}
            THEN <<[pid |-> 20, comm |-> st.shell.fg]>> ELSE <<>>)
        \o (IF Alive(st) /\ st.shell.fg = "make"
            THEN <<[pid |-> 21, comm |-> "cc"]>> ELSE <<>>)
        \o <<[pid |-> 30, comm |-> "ps"]>>

\* get_pids: the exception it raises ("" for none) and the list it returns
get_pids_exc(st) ==
    IF st.self.container_obj.is_none THEN "AttributeError"
    ELSE IF st.docker.state # "running" THEN "APIError"
    ELSE ""

get_pids(st) ==
    SelectSeq(ps_list(st),
              LAMBDA x : x.comm \notin {"ps", "npm", "yarn", "sh"}
                            /\ x.pid \notin st.self.parent_pids)

\* swe_env.py 889: the listing that interrupt obtains goes to the trace
ps_logged(st) == [st EXCEPT !.trace = Append(@, Effect("ps", ps_list(st)))]

\* utils.py 138-192 with pid_func = get_pids: while user processes run nothing
\* is read until the deadline; otherwise the loop reads until a poll finds the
\* pipe empty, which any amount of the output may have reached by then
read_with_timeout(st, timeout_duration) ==
    IF get_pids_exc(st) # "" THEN {Outcome(st, get_pids_exc(st), <<>>)}
    ELSE IF get_pids(st) # <<>>
    THEN {Outcome(st, IF ~Alive(st) THEN "RuntimeError" ELSE "TimeoutError", <<>>)}
    ELSE {LET buffer == SubSeq(st.shell.pipe, 1, c)
              st1 == after_read(st, c)
          IN  IF ~Alive(st) THEN Outcome(st1, "RuntimeError", <<>>)
              ELSE IF Contains(buffer, BADBYTE) THEN Outcome(st1, "UnicodeDecodeError", <<>>)
              ELSE Outcome(st1, "", buffer)
          : c \in Cuts(st, st.shell.old)}

with_newline(input) == IF EndsWith(input, <<NL>>) THEN input ELSE input \o <<NL>>

\* swe_env.py 626-650
communicate_experimental(st, input, timeout_duration, no_output_timeout_duration) ==
    IF st.self.container = "None" THEN {Outcome(st, "AssertionError", <<>>)}
    ELSE LET st1 == [st EXCEPT !.self.returncode = <<>>]
             cmd == with_newline(input) \o command_suffix
         IN  IF ~Alive(st1) THEN {Outcome(st1, "RuntimeError", <<>>)}
             ELSE Then(read_with_timeout_experimental(os_write(st1, cmd), timeout_duration,
                                                      no_output_timeout_duration),
                       LAMBDA o :
                           LET s2 == [o.st EXCEPT !.trace = Append(@, Effect("exit_code", o.exit_code))]
                           IN  IF ~int_accepts(o.exit_code)
                               THEN {Outcome(s2, "ValueError", <<>>)}
                               ELSE {[o EXCEPT !.st = [s2 EXCEPT !.self.returncode =
                                                                     <<int(o.exit_code)>>]]})

\* swe_env.py 664-688: the `processes` method
communicate_processes(st, input, timeout_duration) ==
    LET st1 == [st EXCEPT !.self.returncode = <<>>]
    IN  IF ~Alive(st1) THEN {Outcome(st1, "RuntimeError", <<>>)}
        ELSE Then(read_with_timeout(os_write(st1, with_newline(input)), timeout_duration),
                  LAMBDA b :
                      IF ~Alive(b.st) THEN {Outcome(b.st, "BrokenPipeError", <<>>)}
                      ELSE Then(read_with_timeout(os_write(b.st, <<ECHO, STATUS, NL>>), 5),
                                LAMBDA e :
                                    LET s2 == [e.st EXCEPT !.trace =
                                                  Append(@, Effect("exit_code", strip(e.val)))]
                                    IN  IF ~isdigit(strip(e.val))
                                        THEN {Outcome(s2, "RuntimeError", <<>>)}
                                        ELSE {[Outcome(s2, "", b.val)
                                                EXCEPT !.st.self.returncode =
                                                           <<int(strip(e.val))>>]}))

\* swe_env.py 652-663
communicate_raw(st, input, timeout_duration, no_output_timeout_duration) ==
    IF st.self.container = "None" THEN {Outcome(st, "AssertionError", <<>>)}
    ELSE IF st.self.communicate_method = "end-marker"
    THEN communicate_experimental(st, input, timeout_duration, no_output_timeout_duration)
    ELSE communicate_processes(st, input, timeout_duration)

\* the text _check_syntax writes, line 694
check_text(input) == <<BASH_N, NL>> \o input \o <<NL, "EOF", NL>>

\* swe_env.py 690-695: returns the output; the check passed when returncode is 0
check_syntax(st, input) ==
    communicate_raw(st, check_text(input), DEFAULT_TIMEOUT, DEFAULT_TIMEOUT)

\* self.container.terminate()
terminate(st) ==
    [st EXCEPT !.shell.alive = FALSE, !.shell.fg = "",
               !.trace = Append(@, Effect("terminate", <<>>))]

\* swe_env.py 697-727
communicate(st, input, timeout_duration, no_output_timeout_duration) ==
    IF strip(input) # <<"exit">>
    THEN Then(check_syntax(st, input),
              LAMBDA c :
                  IF c.st.self.returncode # <<0>> THEN {c}
                  ELSE Then(communicate_raw(c.st, input, timeout_duration,
                                            no_output_timeout_duration),
                            LAMBDA o : {[o EXCEPT !.st.self.communicate_output = o.val]}))
    ELSE IF st.self.container = "None" THEN {Outcome(st, "AttributeError", <<>>)}
    ELSE {Outcome([terminate(st) EXCEPT !.self.returncode = <<0>>,
                                        !.self.communicate_output = <<>>],
                  "", <<>>)}

\* container_obj.pause(): an APIError unless the container is running
pause(st) ==
    [st EXCEPT !.docker.state = IF @ = "running" THEN "paused" ELSE @,
               !.trace = Append(@, Effect("pause", <<>>))]

\* container_obj.remove(force=True): NotFound when the container is gone
remove(st) ==
    [st EXCEPT !.docker.state = IF @ \in {"absent", "removed"} THEN @ ELSE "removed",
               !.trace = Append(@, Effect("remove", <<>>))]

\* swe_env.py 492-518: what close does with the container; the exceptions of
\* pause and remove are caught and logged
container_shutdown_always_pauses(st) ==
    IF st.self.container_obj.is_none THEN st ELSE pause(st)

container_shutdown(st) ==
    IF st.self.container_obj.is_none THEN st
    ELSE IF st.self.persistent
    THEN IF st.self.container_obj.status \notin {"paused", "exited", "dead", "stopping"}
         THEN pause(st)
         ELSE st
    ELSE remove(st)

\* swe_env.py 479-520
close(st) ==
    UNION {IF o.st.self.container = "None"
           THEN {Outcome(o.st, "AssertionError", <<>>)}
           ELSE {Outcome(container_shutdown(terminate(o.st)), "", <<>>)}
           : o \in communicate([st EXCEPT !.trace = Append(@, Effect("close", <<>>))],
                                <<"exit">>, DEFAULT_TIMEOUT, DEFAULT_TIMEOUT)}

\* communicate_with_handling closing the session on every non-zero exit code
communicate_with_handling_closing_always(st, input, timeout_duration, no_output_timeout_duration, except_error_msgs) ==
    Then(communicate(st, input, timeout_duration, no_output_timeout_duration),
         LAMBDA o :
             IF o.st.self.returncode = <<0>> THEN {o}
             ELSE Then(close(o.st), LAMBDA c : {Outcome(c.st, "RuntimeError", o.val)}))

\* communicate_with_handling raising without closing the session
communicate_with_handling_without_close(st, input, timeout_duration, no_output_timeout_duration, except_error_msgs) ==
    Then(communicate(st, input, timeout_duration, no_output_timeout_duration),
         LAMBDA o :
             IF o.st.self.returncode = <<0>> THEN {o}
             ELSE {Outcome(o.st, "RuntimeError", o.val)})

\* swe_env.py 729-750; the RuntimeError carries the output of the command
communicate_with_handling(st, input, timeout_duration, no_output_timeout_duration, except_error_msgs) ==
    Then(communicate(st, input, timeout_duration, no_output_timeout_duration),
         LAMBDA o :
             IF o.st.self.returncode = <<0>> THEN {o}
             ELSE IF \E m \in except_error_msgs : Contains(o.val, m) THEN {o}
             ELSE Then(close(o.st), LAMBDA c : {Outcome(c.st, "RuntimeError", o.val)}))

\* container_obj.exec_run("kill -9 <pid>") for the process p
kill(st, p) ==
    LET killed == Append(st.trace, Effect("kill", <<p>>))
        r == IF p.pid = 20 THEN sh_kill(st.shell, killed)
             ELSE IF p.pid = 21 THEN sh_kill_child(st.shell, killed)
             ELSE [sh |-> st.shell, log |-> killed]
    IN  [st EXCEPT !.shell = r.sh, !.trace = r.log]

\* the kills in the order of the enumeration
RECURSIVE kill_all_forward(_, _)
kill_all_forward(st, pids) ==
    IF pids = <<>> THEN st ELSE kill_all_forward(kill(st, Head(pids)), Tail(pids))

\* swe_env.py 890-893: for p in reversed(pids)
RECURSIVE kill_all(_, _)
kill_all(st, pids) ==
    IF pids = <<>> THEN st
    ELSE kill_all(kill(st, pids[Len(pids)]), SubSeq(pids, 1, Len(pids) - 1))

ECHO_INTERRUPTED == <<ECHO, "interrupted">>

\* swe_env.py 898-907: the two echo round trips and the health check
interrupt_rounds(st, observation) ==
    LET failed(o) == {Outcome(o.st, "RuntimeError", <<>>)}
        round(s) == communicate(s, ECHO_INTERRUPTED, 5, DEFAULT_TIMEOUT)
    IN  UNION {IF IsTimeout(a.exc) THEN failed(a)
               ELSE IF a.exc # "" THEN {a}
               ELSE UNION {IF IsTimeout(b.exc) THEN failed(b)
                           ELSE IF b.exc # "" THEN {b}
                           ELSE IF ~EndsWith(strip(b.val), <<"interrupted">>)
                           THEN {Outcome(b.st, "AssertionError", <<>>)}
                           ELSE {Outcome(b.st, "", observation)}
                           : b \in round(a.st)}
               : a \in round(st)}

\* swe_env.py 882-907
interrupt(st) ==
    IF st.self.container = "None" \/ st.self.container_obj.is_none
    THEN {Outcome(st, "AssertionError", <<>>)}
    ELSE IF get_pids_exc(st) # "" THEN {Outcome(st, get_pids_exc(st), <<>>)}
    ELSE UNION {IF d.exc = "TimeoutError" THEN interrupt_rounds(d.st, <<>>)
                ELSE IF d.exc # "" THEN {d}
                ELSE interrupt_rounds(d.st, d.val)
                : d \in read_with_timeout(kill_all(ps_logged(st), get_pids(st)), 20)}

\* the marker echo appended after the wrapping
action_hacking_wrap_first(action) ==
    LET a1 == IF Contains(action, "npm run") \/ Contains(action, "yarn run")
              THEN <<"(nohup">> \o action \o <<"& > /dev/null) && sleep 30 && cat /dev/null", NL>>
              ELSE action
    IN  IF Contains(a1, "./gradlew")
        THEN rstrip(a1) \o <<";", ECHO, PROCESS_DONE_MARKER_START, STATUS,
                              PROCESS_DONE_MARKER_END, NL>>
        ELSE a1

\* utils.py 785-808
action_hacking(action) ==
    LET a1 == IF Contains(action, "./gradlew")
              THEN rstrip(action) \o <<";", ECHO, PROCESS_DONE_MARKER_START, STATUS,
                                       PROCESS_DONE_MARKER_END, NL>>
              ELSE action
    IN  IF Contains(a1, "npm run") \/ Contains(a1, "yarn run")
        THEN <<"(nohup">> \o a1 \o <<"& > /dev/null) && sleep 30 && cat /dev/null", NL>>
        ELSE a1

\* swe_env.py 777-791: the text between the first opening marker and the last
\* closing marker after it
get_submission(output) ==
    LET open == Find(output, SUB_OPEN)
        closes == {i \in 1..Len(output) : i > open /\ output[i] = SUB_CLOSE}
    IN  IF open = 0 \/ closes = {} THEN [found |-> FALSE, text |-> <<>>]
        ELSE [found |-> TRUE,
              text |-> SubSeq(output, open + 1,
                              (CHOOSE x \in closes : \A y \in closes : y <= x) - 1)]

\* the result of step: (observation, reward, done, info)
StepResult(st, observation, done, exit_status, submission) ==
    [Outcome(st, "", observation) EXCEPT !.done = done, !.exit_status = exit_status,
                                         !.submission = submission]

\* the longest run of whole tokens at the start (end) of s within n characters
RECURSIVE first_chars(_, _)
first_chars(s, n) ==
    IF s = <<>> \/ ByteLen(Head(s)) > n THEN <<>>
    ELSE <<Head(s)>> \o first_chars(Tail(s), n - ByteLen(Head(s)))

RECURSIVE last_chars(_, _)
last_chars(s, n) ==
    IF s = <<>> \/ ByteLen(s[Len(s)]) > n THEN <<>>
    ELSE last_chars(SubSeq(s, 1, Len(s) - 1), n - ByteLen(s[Len(s)])) \o <<s[Len(s)]>>

\* swe_env.py 465-466
truncate(observation) ==
    IF len_bytes(observation) > 40000
    THEN first_chars(observation, 20000) \o <<"...">> \o last_chars(observation, 20000)
    ELSE observation

ExitActions ==
    {<<"exit_context">>, <<"exit_cost">>, <<"exit_error">>, <<"exit_format">>, <<"exit_api">>}

\* an end of step that keeps the observation when the submission is blank
step_finish_keeping_observation(st, observation) ==
    LET obs == truncate(observation)
        sub == get_submission(obs)
        text == IF strip(sub.text) # <<>> THEN sub.text ELSE None
    IN  IF sub.found
        THEN StepResult(st, IF text = None THEN obs ELSE text, TRUE, <<"submitted">>, text)
        ELSE StepResult(st, obs, FALSE, <<>>, <<>>)

\* swe_env.py 464-477: the end of step when the action was run; a submission
\* field of <<>> stands for an info without the key `submission`
step_finish(st, observation) ==
    LET obs == truncate(observation)
        sub == get_submission(obs)
        text == IF strip(sub.text) # <<>> THEN sub.text ELSE None
    IN  IF sub.found THEN StepResult(st, text, TRUE, <<"submitted">>, text)
        ELSE StepResult(st, obs, FALSE, <<>>, <<>>)

\* an early exit that leaves the session open
step_early_exit_without_close(st, observation) ==
    {StepResult(st, observation, TRUE, <<"early_exit">>, <<>>)}

\* swe_env.py 444-447, 450-453, 456-459: close and end the episode
step_early_exit(st, observation) ==
    Then(close(st), LAMBDA c : {StepResult(c.st, observation, TRUE, <<"early_exit">>, <<>>)})

\* swe_env.py 404-420
step_autosubmit(st, action) ==
    {LET sub == get_submission(o.val)
     IN  IF o.exc = "" /\ sub.found /\ strip(sub.text) # <<>>
         THEN StepResult(o.st, <<"Exited (autosubmitted)">>, TRUE,
                         <<"submitted (">> \o action \o <<")">>, sub.text)
         ELSE StepResult(o.st, <<"Exited">>, TRUE, action, <<>>)
     : o \in communicate(st, <<"submit">>, AGENT_ACTION_TIMEOUT, DEFAULT_TIMEOUT)}

\* swe_env.py 433-447: the handler of a timeout of the action
step_timed_out(o) ==
    UNION {IF i.exc = ""
           THEN {step_finish(i.st, o.val \o i.val \o <<NL, "EXECUTION TIMED OUT">>)}
           ELSE IF i.exc = "RuntimeError"
           THEN step_early_exit(i.st, o.val \o i.val
                                        \o <<NL, "EXECUTION TIMED OUT AND INTERRUPT FAILED.">>)
           ELSE {i}
           : i \in interrupt(o.st)}

\* a test for the action skip that trims nothing
is_skip_untrimmed(action) == action = <<"skip">>

\* swe_env.py 400
is_skip(action) == strip(action) = <<"skip">>

\* swe_env.py 434-462: the exception that the send of step raised and the
\* text it carries, noted in the trace before the handler of its class runs
raised(S) ==
    {IF o.exc = "" THEN o
     ELSE [o EXCEPT !.st.trace = Append(@, Effect("raise", <<o.exc>> \o o.val))]
     : o \in S}

\* swe_env.py 383-477
step(st, action) ==
    IF is_skip(action)
    THEN {StepResult(st, <<"Skipped">>, TRUE, <<"skipped">>, <<>>)}
    ELSE IF action \in ExitActions THEN step_autosubmit(st, action)
    ELSE UNION {IF o.exc = "" THEN {step_finish(o.st, o.val)}
                ELSE IF IsTimeout(o.exc) THEN step_timed_out(o)
                ELSE IF o.exc = "RuntimeError"
                THEN step_early_exit(o.st, <<NL, "COMMAND FAILED TO EXECUTE.">>)
                ELSE IF o.exc = "BrokenPipeError"
                THEN step_early_exit(o.st, <<NL, "BROKEN PIPE ERROR.">>)
                ELSE {step_finish(o.st, <<NL, "EXECUTION FAILED OR COMMAND MALFORMED">>)}
                : o \in raised(communicate(st, action_hacking(action), LONG_TIMEOUT,
                                           AGENT_ACTION_NO_OUTPUT_TIMEOUT))}

\* a shell just started
NewShell ==
    [alive |-> TRUE, fg |-> "", stdin |-> <<>>, pipe |-> <<>>, old |-> 0, status |-> 0,
     splits |-> 0, fault |-> NoFault]
NoShell == [NewShell EXCEPT !.alive = FALSE]

\* utils.py 345-355: what is done to a container that exists, by its status
status_transition_keeping_paused(status) ==
    CASE status = "created" -> "start"
      [] status \in {"running", "paused"} -> "pass"
      [] status = "exited" -> "restart"
      [] OTHER -> "RuntimeError"

status_transition(status) ==
    CASE status = "created" -> "start"
      [] status = "running" -> "pass"
      [] status = "exited" -> "restart"
      [] status = "paused" -> "unpause"
      [] OTHER -> "RuntimeError"

\* the engine: the state of a container after start(), restart() or unpause()
after_transition(state, transition) == IF transition = "pass" THEN state ELSE "running"

\* utils.py 357-365: the arguments of client.containers.run
run_kwargs(persistent) ==
    <<"detach">> \o (IF persistent THEN <<>> ELSE <<"auto_remove">>)

\* utils.py 367-410: the exec channel `docker exec -i <name> /bin/bash -l` is
\* attached to the container in the state the engine has it in
attached(st, state, auto_remove, effects) ==
    {Outcome([st EXCEPT !.docker.state = state, !.docker.auto_remove = auto_remove,
                        !.shell = [NewShell EXCEPT !.splits = st.shell.splits,
                                                  !.fault = st.shell.fault],
                        !.self.container = "Popen", !.self.parent_pids = {7, 1},
                        !.trace = @ \o effects \o <<Effect("Popen", <<state>>)>>],
             "", <<>>)}

\* utils.py 338-410
get_persistent_container(st, persistent) ==
    IF st.docker.state \in {"absent", "removed"}
    THEN attached(st, "running", Contains(run_kwargs(persistent), "auto_remove"),
                  <<Effect("run", run_kwargs(persistent)), Effect("start", <<>>)>>)
    ELSE IF status_transition(st.docker.state) = "RuntimeError"
    THEN {Outcome(st, "RuntimeError", <<>>)}
    ELSE attached(st, after_transition(st.docker.state, status_transition(st.docker.state)),
                  st.docker.auto_remove,
                  IF status_transition(st.docker.state) = "pass" THEN <<>>
                  ELSE <<Effect(status_transition(st.docker.state), <<>>)>>)

\* utils.py 307-335: `docker run -i --rm` of a container with a new name
get_non_persistent_container(st) ==
    {Outcome([st EXCEPT !.docker.state = "running", !.docker.auto_remove = TRUE,
                        !.shell = [NewShell EXCEPT !.splits = st.shell.splits,
                                                  !.fault = st.shell.fault],
                        !.self.container = "Popen", !.self.parent_pids = {1},
                        !.trace = @ \o <<Effect("docker run", <<"-i", "--rm">>)>>],
             "", <<>>)}

\* utils.py 413-435; line 433 does not pass `persistent` on, so that
\* _get_persistent_container runs with the default of its parameter, False
get_container(st) ==
    IF ~st.docker.image THEN {Outcome(st, "RuntimeError", <<>>)}
    ELSE IF st.self.persistent THEN get_persistent_container(st, FALSE)
    ELSE get_non_persistent_container(st)

\* what may become of the container between its start and the moment
\* _init_container fetches its object: nothing, or it is paused from outside,
\* or it exits (and the engine removes it when it was created with auto_remove)
StartFates == {"running", "paused", "exited"}

befall(st, fate) ==
    IF fate = "paused" THEN [st EXCEPT !.docker.state = "paused", !.shell.fg = "-"]
    ELSE IF fate = "exited"
    THEN [st EXCEPT !.docker.state = IF st.docker.auto_remove THEN "removed" ELSE "exited",
                    !.shell.alive = FALSE]
    ELSE st

\* swe_env.py 566-607
init_container(st, fate) ==
    Then(get_container(st),
         LAMBDA g :
             LET s1 == befall(g.st, fate)
             IN  IF s1.docker.state \in {"absent", "removed"}
                 THEN {Outcome([s1 EXCEPT !.self.container_obj = [is_none |-> TRUE, status |-> ""]],
                               "RuntimeError", <<>>)}
                 ELSE {Outcome([s1 EXCEPT !.self.container_obj =
                                              [is_none |-> FALSE, status |-> s1.docker.state]],
                               "", <<>>)})

\* one call of reset to the shell: communicate, or communicate_with_handling
Send(handled, input, timeout_duration, no_output_timeout_duration, except_error_msgs) ==
    [handled |-> handled, input |-> <<input>>, timeout_duration |-> timeout_duration,
     no_output_timeout_duration |-> no_output_timeout_duration,
     except_error_msgs |-> except_error_msgs]

send(st, x) ==
    IF x.handled
    THEN communicate_with_handling(st, x.input, x.timeout_duration,
                                   x.no_output_timeout_duration, x.except_error_msgs)
    ELSE communicate(st, x.input, x.timeout_duration, x.no_output_timeout_duration)

RECURSIVE send_all(_, _)
send_all(S, sends) ==
    IF sends = <<>> THEN S
    ELSE send_all(Then(S, LAMBDA o : send(o.st, Head(sends))), Tail(sends))

Plain(input) == Send(FALSE, input, DEFAULT_TIMEOUT, DEFAULT_TIMEOUT, {})
Handled(input) == Send(TRUE, input, DEFAULT_TIMEOUT, DEFAULT_TIMEOUT, {})

\* swe_env.py 609-624
init_scripts ==
    <<Handled("mkdir -p /root/commands"), Handled("touch /root/commands/__init__.py"),
      Handled("export PATH=$PATH:/root/commands")>>

\* swe_env.py 300-314
clean_repository ==
    [i \in 1..7 |->
        Send(TRUE, <<"echo -n > /root/files_to_edit.txt", "cd repo", "export ROOT=$(pwd -P)",
                     "git status", "git restore .", "git reset --hard", "git clean -fdxq">>[i],
             LONG_TIMEOUT, DEFAULT_TIMEOUT, {"fatal", "not a git command"})]

\* the environment variables reset before the gitignore override
install_and_environment_exports_first ==
    <<Send(TRUE, "apt-get update", LONG_TIMEOUT, LONG_TIMEOUT, {}),
      Send(TRUE, "apt-get install -y jq", LONG_TIMEOUT, LONG_TIMEOUT, {}),
      Handled("export CURRENT_FILE="), Handled("export CURRENT_LINE=0"),
      Handled("export SEARCH_RESULTS=()"), Handled("export SEARCH_FILES=()"),
      Handled("export SEARCH_INDEX=0"),
      Plain("chmod +x /home/ignore.sh"), Handled("bash ../ignore.sh")>>

\* swe_env.py 317-348
install_and_environment ==
    <<Send(TRUE, "apt-get update", LONG_TIMEOUT, LONG_TIMEOUT, {}),
      Send(TRUE, "apt-get install -y jq", LONG_TIMEOUT, LONG_TIMEOUT, {}),
      Plain("chmod +x /home/ignore.sh"), Handled("bash ../ignore.sh"),
      Handled("export CURRENT_FILE="), Handled("export CURRENT_LINE=0"),
      Handled("export SEARCH_RESULTS=()"), Handled("export SEARCH_FILES=()"),
      Handled("export SEARCH_INDEX=0")>>

\* str.lower on the tokens that have capitals
lower(s) ==
    [i \in DOMAIN s |->
        CASE s[i] = "Linux" -> "linux"
          [] s[i] = "Valkey-IO" -> "valkey-io"
          [] s[i] = "Elastic" -> "elastic"
          [] OTHER -> s[i]]

\* swe_env.py 350-360
platform_tools(S) ==
    Then(S, LAMBDA o :
        Then(communicate(o.st, <<"uname -s">>, DEFAULT_TIMEOUT, DEFAULT_TIMEOUT), LAMBDA sys :
            Then(communicate(sys.st, <<"uname -m">>, DEFAULT_TIMEOUT, DEFAULT_TIMEOUT), LAMBDA arch :
                LET build == [Send(TRUE, "apt update", LONG_TIMEOUT, DEFAULT_TIMEOUT, {})
                                 EXCEPT !.input = <<"apt update", ";", "apt install build-essential">>]
                IN  send_all({arch},
                             IF lower(strip(sys.val)) = <<"linux">>
                                  /\ lower(strip(arch.val)) = <<"x86_64">>
                             THEN <<build, Plain("rm /home/fix.patch")>>
                             ELSE <<Plain("rm /home/fix.patch")>>))))

\* swe_env.py 535-547
reset_container(st, fate) ==
    send_all(init_container(IF st.self.container # "None" THEN terminate(st) ELSE st, fate),
             init_scripts)

\* swe_env.py 260-362; apply_test_patch is not read anywhere in it
reset(st, fate, apply_test_patch) ==
    LET built == IF st.self.prebuild THEN st
                 ELSE [st EXCEPT !.trace = Append(@, Effect("build", <<>>))]
        listed == send_all(reset_container(built, fate), <<Plain("cd /home"), Plain("ls")>>)
        cloned == Then(listed, LAMBDA o :
                      IF \E i \in 1..Len(SplitOn(o.val, NL)) : SplitOn(o.val, NL)[i] = <<"repo">>
                      THEN {o} ELSE {Outcome(o.st, "AssertionError", <<>>)})
        copied == Then(send_all(cloned, clean_repository \o SubSeq(install_and_environment, 1, 2)),
                       LAMBDA o : {[o EXCEPT !.st.trace = Append(@, Effect("cp", <<"ignore.sh">>))]})
    IN  Then(platform_tools(send_all(copied, SubSeq(install_and_environment, 3, 9))),
             LAMBDA o : {Outcome(o.st, "", <<>>)})

(***************************************************************************)
(* Spec: a session.  Each operation of SWEEnv is one action; `last` is the *)
(* call made last and what it returned or raised, `trace` what that call   *)
(* did to the shell and the container, in order (of a reset the writes and *)
(* the exit codes are left out).                                           *)
(***************************************************************************)
MaxOps == 3
MaxResets == 1

Methods == {"end-marker", "processes"}

\* the actions an agent sends to step
Actions ==
    {<<"ok">>, <<"fail">>, <<"'">>, <<"hang">>, <<"make">>, <<"spin">>, <<"./gradlew">>, <<"printmark">>,
     <<"ok", NL, "EOF", NL, "fail">>, <<"submit">>, <<"skip">>, <<" ", "skip", NL>>,
     <<"exit_cost">>, <<"exit_forfeit">>, <<"exit 1">>, <<"exit">>, <<"flood">>}

\* the inputs of direct calls of communicate and communicate_with_handling
Inputs == {<<"ok">>, <<"'">>, <<"ok", NL, "EOF", NL, "fail">>}

NoCall ==
    [op |-> "", input |-> <<>>, exc |-> "", val |-> <<>>, done |-> FALSE,
     exit_status |-> <<>>, submission |-> <<>>, n |-> 0, resets |-> 0]

\* what the engine knows of the container named by the arguments when the
\* environment is constructed: nothing, or one of its statuses
ContainerStatuses == {"absent", "created", "running", "exited", "paused", "dead"}

\* the part of the trace of a reset that is kept: how the container was
\* started and the files that were copied into it
StartEffects == {"cp", "run", "docker run", "start", "restart", "unpause", "Popen"}

\* and, with them, the image build, the commands the shell ran and the end of
\* the session
ResetEffects == StartEffects \cup {"build", "exec", "failed", "terminate", "pause", "remove"}

\* what can be wrong with the container a reset works on: nothing; no git
\* repository in the working directory; a file git cannot restore; no package
\* index; a gitignore script that fails
Faults ==
    {NoFault,
     Fault("git status", <<"fatal", ": not a git repository", NL>>, 128),
     Fault("git restore .", <<"error: unable to unlink", NL>>, 1),
     Fault("apt-get install -y jq", <<"E: Unable to locate package jq", NL>>, 100),
     Fault("bash ../ignore.sh", <<"fatal", ": not a git repository", NL>>, 128)}

\* swe_env.py 141-191: the state after construction, pre_build_all_images
\* being the argument prebuild
Constructed(prebuild) ==
    /\ rd = Unused
    /\ \E persistent \in BOOLEAN, method \in Methods :
          self = [container |-> "None", container_obj |-> [is_none |-> TRUE, status |-> ""],
                  persistent |-> persistent, communicate_method |-> method,
                  returncode |-> <<>>, communicate_output |-> <<>>, parent_pids |-> {},
                  prebuild |-> prebuild]
    /\ \E state \in ContainerStatuses :
          /\ state # "absent" => self.persistent
          /\ docker = [state |-> state, auto_remove |-> FALSE, image |-> TRUE]
    /\ shell = NoShell
    /\ last = NoCall
    /\ trace = <<>>
    /\ call = Unused

\* the sessions of Spec work on images built beforehand
Init == Constructed(TRUE)

Bundle == [self |-> self, docker |-> docker, shell |-> shell, trace |-> <<>>]

\* the call op(input) takes one of the outcomes S
Call(op, input, S) ==
    /\ last.n < MaxOps
    /\ \E o \in S :
          /\ self' = o.st.self
          /\ docker' = o.st.docker
          /\ shell' = [o.st.shell EXCEPT !.fault = NoFault]   \* a fault concerns reset only
          /\ trace' = IF op = "reset" THEN SelectSeq(o.st.trace, LAMBDA e : e.op \in ResetEffects)
                       ELSE o.st.trace
          /\ last' = [op |-> op, input |-> input, exc |-> o.exc, val |-> o.val,
                      done |-> o.done, exit_status |-> o.exit_status,
                      submission |-> o.submission, n |-> last.n + 1,
                      resets |-> last.resets + IF op = "reset" THEN 1 ELSE 0]
    /\ UNCHANGED <<rd, call>>

Reset ==
    /\ last.resets < MaxResets
    /\ \E fate \in StartFates, apply_test_patch \in BOOLEAN :
          Call("reset", IF apply_test_patch THEN <<"apply_test_patch">> ELSE <<>>,
               reset(Bundle, fate, apply_test_patch))

Step == \E action \in Actions : Call("step", action, step(Bundle, action))

Communicate ==
    \E input \in Inputs :
        Call("communicate", input, communicate(Bundle, input, DEFAULT_TIMEOUT, DEFAULT_TIMEOUT))

\* the lists except_error_msgs of direct calls of communicate_with_handling
Allowlists == {<<>>, <<"syntax error">>}

\* the call notes its list at the head of the trace
CommunicateWithHandling ==
    \E input \in Inputs, except_error_msgs \in Allowlists :
        Call("communicate_with_handling", input,
             communicate_with_handling(
                 [Bundle EXCEPT !.trace = <<Effect("except_error_msgs", except_error_msgs)>>],
                 input, DEFAULT_TIMEOUT, DEFAULT_TIMEOUT,
                 {except_error_msgs[i] : i \in DOMAIN except_error_msgs}))

Close == Call("close", <<>>, close(Bundle))

\* the container dies under a running session
Crash ==
    /\ shell.alive /\ docker.state = "running"
    /\ shell' = [shell EXCEPT !.alive = FALSE, !.fg = ""]
    /\ docker' = [docker EXCEPT !.state = IF docker.auto_remove THEN "removed" ELSE "exited"]
    /\ last' = [NoCall EXCEPT !.op = "Crash", !.n = last.n, !.resets = last.resets]
    /\ trace' = <<>>
    /\ UNCHANGED <<rd, self, call>>

Next ==
    \/ Reset
    \/ Step
    \/ Communicate
    \/ CommunicateWithHandling
    \/ Close
    \/ Crash

Spec == Init /\ [][Next]_vars

(***************************************************************************)
(* SpecReset: the resets of a session whose container may have a fault.    *)
(***************************************************************************)
ResetFaulty ==
    /\ last.resets < MaxResets
    /\ \E fate \in StartFates, apply_test_patch \in BOOLEAN, fault \in Faults :
          Call("reset", IF apply_test_patch THEN <<"apply_test_patch">> ELSE <<>>,
               reset([Bundle EXCEPT !.shell.fault = fault], fate, apply_test_patch))

InitReset == \E prebuild \in BOOLEAN : Constructed(prebuild)

SpecReset == InitReset /\ [][ResetFaulty]_vars

(***************************************************************************)
(* SpecCall: single calls of the functions whose result depends on their   *)
(* arguments and on what they read only.  The initial state holds the name *)
(* of the function and its arguments (for the process check of container   *)
(* startup: the listings ps returns), the action computes its result.      *)
(***************************************************************************)
\* all strings of at most n characters from chars
Strings(chars, n) == UNION {[1..k -> chars] : k \in 0..n}

NewCall(fn, args) == [fn |-> fn, args |-> args, pc |-> "call", result |-> <<>>]

Return(result) == call' = [call EXCEPT !.pc = "done", !.result = result]

Called(fn) == call.fn = fn /\ call.pc = "call"

Returned(fn) == call.fn = fn /\ call.pc = "done"

\* bool(s) of a str | None
truthy(s) == s # None /\ s # <<>>

\* container names: None, or a string of at most MaxName characters
MaxName == 3
NameChars == {" ", NL, "c"}

EnvironmentArgumentsValues ==
    [container_name : {None} \cup Strings(NameChars, MaxName),
     cache_task_images : BOOLEAN,
     timeout : {None, <<"3", "0">>}]

\* __post_init__ without its check on blank names
post_init_without_blank_check(args) ==
    [exc |-> IF args.cache_task_images /\ truthy(args.container_name)
             THEN "ValueError" ELSE "",
     warned |-> args.timeout # None]

\* swe_env.py 94-105: the exception that leaves the construction ("" for none)
post_init(args) ==
    [exc |-> IF args.cache_task_images /\ truthy(args.container_name) THEN "ValueError"
             ELSE IF args.container_name # None /\ strip(args.container_name) = <<>>
             THEN "ValueError"
             ELSE "",
     warned |-> args.timeout # None]

\* EnvironmentArguments(...)
Construct ==
    /\ Called("EnvironmentArguments")
    /\ Return(post_init(call.args))
    /\ UNCHANGED <<rd, self, docker, shell, last, trace>>

\* observations at the end of step: every text of at most MaxObs tokens, and
\* texts of 40,000 characters and more
MaxObs == 4
ObsTokens == {SUB_OPEN, SUB_CLOSE, "d", " ", NL}

Observations ==
    Strings(ObsTokens, MaxObs)
        \cup {<<K, K, K, K>>, <<K, K, K, K, K>>,
              <<SUB_OPEN, J, K, K, K, J, SUB_CLOSE>>,
              <<K, K, SUB_OPEN, "d", NL, "d", SUB_CLOSE, K, K>>,
              <<SUB_OPEN, "d", NL, "d", SUB_CLOSE, K, K, K, K>>}

\* raw output buffers of a command that completed: at most MaxBuf pieces of
\* output (a valid byte, 100 valid bytes, an invalid byte), then the marker line
MaxBuf == 4
BufTokens == {"a", H, BADBYTE}

Buffers == {b \o MarkerLine(0) : b \in Strings(BufTokens, MaxBuf)}

\* utils.py 286: the check of the reader on its buffer
CheckUnicode ==
    /\ Called("_check_for_too_many_non_unicode_bytes")
    /\ Return([exc |-> IF check_for_too_many_non_unicode_bytes(call.args)
                       THEN "UnicodeError" ELSE ""])
    /\ UNCHANGED <<rd, self, docker, shell, last, trace>>

\* swe_env.py 464-477 on the output of an action that was run
StepEnd ==
    /\ Called("step_finish")
    /\ LET r == step_finish(Unused, call.args)
       IN  Return([observation |-> r.val, done |-> r.done, exit_status |-> r.exit_status,
                   submission |-> r.submission, exc |-> r.exc])
    /\ UNCHANGED <<rd, self, docker, shell, last, trace>>

\* ---------------------------------------------------------------------
\* etcd.py: Etcd.parse_log.  A log is a text; the words `--- PASS:`,
\* `--- FAIL:`, `--- SKIP:`, `FAIL`, `:` and `/` are tokens of their own.
\* ---------------------------------------------------------------------

\* str.rfind: index of the last occurrence of token t in s, 0 when there is none
rfind(s, t) ==
    LET hits == {i \in 1..Len(s) : s[i] = t}
    IN  IF hits = {} THEN 0 ELSE CHOOSE i \in hits : \A j \in hits : j <= i

\* the name cut at its first `/`
get_base_name_first_segment(test_name) ==
    IF Find(test_name, "/") = 0 THEN test_name ELSE SubSeq(test_name, 1, Find(test_name, "/") - 1)

\* etcd.py 272-276
get_base_name(test_name) ==
    LET index == rfind(test_name, "/")
    IN  IF index = 0 THEN test_name ELSE SubSeq(test_name, 1, index - 1)

\* (\S+) at the head of s: the longest run of tokens that are not whitespace
RECURSIVE non_space_run(_)
non_space_run(s) ==
    IF s = <<>> \/ Head(s) \in Whitespace THEN <<>>
    ELSE <<Head(s)>> \o non_space_run(Tail(s))

\* re.compile(r"<word> (\S+)").match(line): group(1), <<>> when there is no match
match_word(line, word) ==
    IF StartsWith(line, <<word, " ">>) THEN non_space_run(SubSeq(line, 3, Len(line)))
    ELSE <<>>

\* an optional greedy item of a pattern: what is left of s with the item
\* taken and with the item left out, in the order the matcher tries them
optional(s, items) == IF s # <<>> /\ Head(s) \in items THEN <<Tail(s), s>> ELSE <<s>>

\* (.+?)\s at the head of s: the shortest non-empty prefix that whitespace follows
lazy_group(s) ==
    LET ends == {i \in 1..(Len(s) - 1) : s[i + 1] \in Whitespace}
    IN  IF ends = {} THEN <<>>
        ELSE SubSeq(s, 1, CHOOSE i \in ends : \A j \in ends : i <= j)

\* the group of the first of the remainders on which (.+?)\s matches
RECURSIVE first_group(_)
first_group(rests) ==
    IF rests = <<>> THEN <<>>
    ELSE IF lazy_group(Head(rests)) # <<>> THEN lazy_group(Head(rests))
    ELSE first_group(Tail(rests))

\* re.compile(r"FAIL:?\s?(.+?)\s").match(line): group(1), <<>> when there is no match
match_fail(line) ==
    IF ~StartsWith(line, <<"FAIL">>) THEN <<>>
    ELSE LET colon == optional(Tail(line), {":"})
         IN  first_group(optional(colon[1], Whitespace)
                         \o (IF Len(colon) = 2 THEN optional(colon[2], Whitespace) ELSE <<>>))

\* etcd.py 265-270: the groups that the patterns of each list capture on a line
re_pass_tests(line) == <<match_word(line, "--- PASS:")>>

re_fail_tests(line) == <<match_word(line, "--- FAIL:"), match_fail(line)>>

re_skip_tests(line) == <<match_word(line, "--- SKIP:")>>

\* a pass that takes the name out of the failed names
pass_match_upgrading(r, test_name) ==
    IF test_name # <<>>
    THEN [r EXCEPT !.passed_tests = @ \cup {get_base_name(test_name)},
                   !.failed_tests = @ \ {get_base_name(test_name)}]
    ELSE r

\* etcd.py 283-286
pass_match(r, test_name) ==
    IF test_name # <<>> /\ test_name \notin r.failed_tests
    THEN [r EXCEPT !.passed_tests = @ \cup {get_base_name(test_name)}]
    ELSE r

\* etcd.py 290-296
fail_match(r, test_name) ==
    IF test_name # <<>>
    THEN [r EXCEPT !.passed_tests = @ \ {test_name},
                   !.skipped_tests = @ \ {test_name},
                   !.failed_tests = @ \cup {get_base_name(test_name)}]
    ELSE r

\* etcd.py 300-303
skip_match(r, test_name) ==
    IF test_name # <<>> /\ test_name \notin r.failed_tests
    THEN [r EXCEPT !.skipped_tests = @ \cup {get_base_name(test_name)}]
    ELSE r

\* etcd.py 279-303: the body of the loop over the lines
parse_line(r, raw) ==
    LET line == strip(raw)
        after_pass == pass_match(r, re_pass_tests(line)[1])
        after_fail == fail_match(fail_match(after_pass, re_fail_tests(line)[1]),
                                 re_fail_tests(line)[2])
    IN  skip_match(after_fail, re_skip_tests(line)[1])

RECURSIVE parse_lines(_, _)
parse_lines(r, lines) ==
    IF lines = <<>> THEN r ELSE parse_lines(parse_line(r, Head(lines)), Tail(lines))

\* etcd.py 305-312
TestResult(passed_tests, failed_tests, skipped_tests) ==
    [passed_count |-> Cardinality(passed_tests), failed_count |-> Cardinality(failed_tests),
     skipped_count |-> Cardinality(skipped_tests), passed_tests |-> passed_tests,
     failed_tests |-> failed_tests, skipped_tests |-> skipped_tests]

\* the TestResult of the three sets of r
ResultOf(r) == TestResult(r.passed_tests, r.failed_tests, r.skipped_tests)

\* etcd.py 260-312
parse_log(test_log) ==
    LET r == parse_lines([passed_tests |-> {}, failed_tests |-> {}, skipped_tests |-> {}],
                         splitlines(test_log))
    IN  TestResult(r.passed_tests, r.failed_tests, r.skipped_tests)

MaxLines == 3

\* lines of `go test -v`: results of a test T, of its subtests T/a and T/b
\* (indented, with the time) and of the nested subtest T/a/c, the package
\* line, and lines of other output
LogLines ==
    { <<"--- PASS:", " ", "T">>, <<"--- FAIL:", " ", "T">>, <<"--- SKIP:", " ", "T">>,
      <<" ", "--- PASS:", " ", "T", "/", "a", " ", "(0.00s)">>,
      <<" ", "--- FAIL:", " ", "T", "/", "a", " ", "(0.00s)">>,
      <<" ", "--- FAIL:", " ", "T", "/", "b", " ", "(0.00s)">>,
      <<" ", "--- FAIL:", " ", "T", "/", "a", "/", "c">>,
      <<" ", "--- SKIP:", " ", "T", "/", "a">>,
      <<"FAIL", " ", "T", " ", "0.1s">>, <<"FAIL">>, <<"ok", " ", "T">> }

RECURSIVE text_of(_)
text_of(lines) == IF lines = <<>> THEN <<>> ELSE Head(lines) \o <<NL>> \o text_of(Tail(lines))

\* the logs of at most MaxLines of the given lines, with and without a line
\* break after the last line
LogsOver(Lines) ==
    UNION {{text_of(lines), join(lines, <<NL>>)} : lines \in Strings(Lines, MaxLines)}

Logs == LogsOver(LogLines)

ParseLog ==
    /\ Called("parse_log")
    /\ Return(parse_log(call.args))
    /\ UNCHANGED <<rd, self, docker, shell, last, trace>>

\* ---------------------------------------------------------------------
\* valkey.py: Valkey.parse_log.  The tags `[ok]:`, `[err]:`, `[exception]:`
\* and `[ignore]:` and the brackets `(` and `)` are tokens of their own.
\* ---------------------------------------------------------------------

\* (.+?)( \(.+\))?$ on s: the shortest non-empty prefix that is followed by
\* the end of the line or by ` (...)` up to the end of the line
before_brackets(s) ==
    LET ends == {i \in 1..Len(s) :
                    \/ i = Len(s)
                    \/ /\ Len(s) - i >= 4 /\ s[i + 1] = " " /\ s[i + 2] = "("
                       /\ s[Len(s)] = ")"}
    IN  IF ends = {} THEN <<>>
        ELSE SubSeq(s, 1, CHOOSE i \in ends : \A j \in ends : i <= j)

\* re.compile(r"^<tag> (.+?)( \(.+\))?$").match(line): group(1), <<>> without a match
match_tag(line, tag) ==
    IF StartsWith(line, <<tag, " ">>) THEN before_brackets(SubSeq(line, 3, Len(line)))
    ELSE <<>>

\* valkey.py 298-304: the groups that the patterns of each list capture on a line
re_passes(line) == <<match_tag(line, "[ok]:")>>

re_fails(line) == <<match_tag(line, "[err]:"), match_tag(line, "[exception]:")>>

\* set.add of the group of a pattern that matched
add_match(tests, test) == IF test # <<>> THEN tests \cup {test} ELSE tests

\* valkey.py 310-324: the body of the loop over the lines
Valkey_parse_line(r, raw) ==
    IF strip(raw) = <<>> THEN r
    ELSE [r EXCEPT !.passed_tests = add_match(@, re_passes(strip(raw))[1]),
                   !.failed_tests = add_match(add_match(@, re_fails(strip(raw))[1]),
                                              re_fails(strip(raw))[2])]

RECURSIVE Valkey_parse_lines(_, _)
Valkey_parse_lines(r, lines) ==
    IF lines = <<>> THEN r
    ELSE Valkey_parse_lines(Valkey_parse_line(r, Head(lines)), Tail(lines))

\* the three empty sets at the start of parse_log
NoTests == [passed_tests |-> {}, failed_tests |-> {}, skipped_tests |-> {}]

\* valkey.py 293-339
Valkey_parse_log(test_log) ==
    ResultOf(Valkey_parse_lines(NoTests, splitlines(test_log)))

\* lines of the valkey test suite about the tests t and `t u`
ValkeyLines ==
    { <<"[ok]:", " ", "t">>, <<"[ok]:", " ", "t", " ", "(", "3 ms", ")">>,
      <<"[err]:", " ", "t">>, <<"[exception]:", " ", "t", " ", "(", "x", ")">>,
      <<"[ok]:", " ", "t", " ", "u">>, <<" ", "[err]:", " ", "t", " ", "u", " ", "(", "x", ")">>,
      <<"[ignore]:", " ", "t">>, <<>>, <<"Testing", " ", "t">> }

ValkeyLogs == LogsOver(ValkeyLines)

ValkeyParseLog ==
    /\ Called("Valkey.parse_log")
    /\ Return(Valkey_parse_log(call.args))
    /\ UNCHANGED <<rd, self, docker, shell, last, trace>>

\* ---------------------------------------------------------------------
\* logstash.py: Logstash.parse_log.  `>`, `Task`, `:` and the words PASSED,
\* FAILED, SKIPPED, UP-TO-DATE and NO-SOURCE are tokens of their own.
\* ---------------------------------------------------------------------

NoSpace(s) == s # <<>> /\ \A i \in 1..Len(s) : s[i] \notin Whitespace

\* s without the ending ` <word>`; <<>> when s does not end so; s itself for no word
before_word(s, word) ==
    IF word = "" THEN s
    ELSE IF Len(s) >= 2 /\ SubSeq(s, Len(s) - 1, Len(s)) = <<" ", word>>
    THEN SubSeq(s, 1, Len(s) - 2)
    ELSE <<>>

\* re.compile(r"^> Task :(\S+) <word>$").match(line), and r"^> Task :(\S+)$"
\* for no word: group(1), <<>> without a match
match_task(line, word) ==
    LET name == before_word(SubSeq(line, 6, Len(line)), word)
    IN  IF StartsWith(line, <<">", " ", "Task", " ", ":">>) /\ NoSpace(name) THEN name
        ELSE <<>>

\* re.compile(r"^(.+ > .+) <word>$").match(line): group(1), <<>> without a match
match_test(line, word) ==
    LET name == before_word(line, word)
    IN  IF \E i \in 2..(Len(name) - 3) : SubSeq(name, i, i + 2) = <<" ", ">", " ">>
        THEN name ELSE <<>>

\* logstash.py 279-294: the groups that the patterns of each list capture on a line
passed_res(line) ==
    <<match_task(line, ""), match_task(line, "UP-TO-DATE"), match_test(line, "PASSED")>>

failed_res(line) == <<match_task(line, "FAILED"), match_test(line, "FAILED")>>

skipped_res(line) ==
    <<match_task(line, "SKIPPED"), match_task(line, "NO-SOURCE"), match_test(line, "SKIPPED")>>

\* a pass that looks for the name among the skipped names
passed_re_unless_skipped(r, name) ==
    IF name # <<>> /\ name \notin r.skipped_tests
    THEN [r EXCEPT !.passed_tests = @ \cup {name}] ELSE r

\* a pass that does not look at the failed names
passed_re_unconditional(r, name) ==
    IF name # <<>> THEN [r EXCEPT !.passed_tests = @ \cup {name}] ELSE r

\* logstash.py 298-300
passed_re(r, name) ==
    IF name # <<>> /\ name \notin r.failed_tests
    THEN [r EXCEPT !.passed_tests = @ \cup {name}] ELSE r

\* logstash.py 303-307
failed_re(r, name) ==
    IF name # <<>>
    THEN [r EXCEPT !.failed_tests = @ \cup {name}, !.passed_tests = @ \ {name}] ELSE r

\* logstash.py 310-312
skipped_re(r, name) == [r EXCEPT !.skipped_tests = add_match(@, name)]

\* logstash.py 297-312: the body of the loop over the lines
Logstash_parse_line(r, line) ==
    skipped_re(skipped_re(skipped_re(
        failed_re(failed_re(
            passed_re(passed_re(passed_re(r, passed_res(line)[1]), passed_res(line)[2]),
                      passed_res(line)[3]),
            failed_res(line)[1]), failed_res(line)[2]),
        skipped_res(line)[1]), skipped_res(line)[2]), skipped_res(line)[3])

RECURSIVE Logstash_parse_lines(_, _)
Logstash_parse_lines(r, lines) ==
    IF lines = <<>> THEN r
    ELSE Logstash_parse_lines(Logstash_parse_line(r, Head(lines)), Tail(lines))

\* logstash.py 274-321
Logstash_parse_log(test_log) ==
    ResultOf(Logstash_parse_lines(NoTests, splitlines(test_log)))

\* lines of a Gradle build about the task x and the test method `C > m`
LogstashLines ==
    { <<">", " ", "Task", " ", ":", "x">>,
      <<">", " ", "Task", " ", ":", "x", " ", "UP-TO-DATE">>,
      <<">", " ", "Task", " ", ":", "x", " ", "FAILED">>,
      <<">", " ", "Task", " ", ":", "x", " ", "SKIPPED">>,
      <<">", " ", "Task", " ", ":", "x", " ", "NO-SOURCE">>,
      <<"C", " ", ">", " ", "m", " ", "PASSED">>,
      <<"C", " ", ">", " ", "m", " ", "FAILED">>,
      <<"C", " ", ">", " ", "m", " ", "SKIPPED">>,
      <<"BUILD", " ", "FAILED">> }

LogstashLogs == LogsOver(LogstashLines)

LogstashParseLog ==
    /\ Called("Logstash.parse_log")
    /\ Return(Logstash_parse_log(call.args))
    /\ UNCHANGED <<rd, self, docker, shell, last, trace>>

\* ---------------------------------------------------------------------
\* utils.py 389-410: the processes found in a persistent container after the
\* exec channel was attached.  A listing is what `ps -eo pid,comm` prints, a
\* sequence of <<pid, comm>>.
\* ---------------------------------------------------------------------
DOCKER_START_UP_DELAY == 1

\* utils.py 298-304
get_background_pids(ps) ==
    [bash_pids |-> SelectSeq(ps, LAMBDA x : x[2] \notin {"ps"} /\ x[1] # "1" /\ x[2] = "bash"),
     other_pids |-> SelectSeq(ps, LAMBDA x : x[2] \notin {"ps"} /\ x[1] # "1"
                                               /\ x[2] \notin {"bash"})]

\* the listing that the read number `reads` gets (the first read is number 0)
\* when the processes of polls.first are running at first and those of
\* polls.settled from read number polls.at on
listing_at(polls, reads) == IF reads < polls.at THEN polls.first ELSE polls.settled

\* utils.py 395-400: the wait, entered with the pids read last
RECURSIVE wait_for_pids(_, _, _, _)
wait_for_pids(polls, pids, reads, total_time_slept) ==
    IF Len(pids.bash_pids) > 1 \/ Len(pids.other_pids) > 0
    THEN IF total_time_slept + 1 > 5 * DOCKER_START_UP_DELAY
         THEN get_background_pids(listing_at(polls, reads))
         ELSE wait_for_pids(polls, get_background_pids(listing_at(polls, reads)),
                            reads + 1, total_time_slept + 1)
    ELSE pids

\* utils.py 401-410, on the pids found after the wait
parent_pids_of(pids) ==
    [bash_pids |-> pids.bash_pids, other_pids |-> pids.other_pids,
     exc |-> IF Len(pids.bash_pids) # 1
                  /\ (Len(pids.bash_pids) > 1 \/ Len(pids.other_pids) > 0)
             THEN "RuntimeError" ELSE "",
     parent_pids |-> IF Len(pids.bash_pids) = 1 THEN {pids.bash_pids[1][1], "1"} ELSE {"1"}]

\* utils.py 391-410
find_parent_pids(polls) ==
    parent_pids_of(wait_for_pids(polls, get_background_pids(listing_at(polls, 0)), 1,
                                 DOCKER_START_UP_DELAY))

\* the processes that may run in the container besides its head process
MaxSettle == 6
Processes == << <<"7", "bash">>, <<"8", "bash">>, <<"9", "ps">>, <<"20", "sleep">> >>

Listing(S) == << <<"1", "bash">> >> \o SelectSeq(Processes, LAMBDA x : x \in S)

\* what runs at first, what runs in the end, and from which read on
Polls ==
    {[first |-> Listing(S), settled |-> Listing(T), at |-> k] :
        S \in SUBSET {Processes[i] : i \in 1..Len(Processes)},
        T \in SUBSET {Processes[i] : i \in 1..Len(Processes)},
        k \in 0..MaxSettle}

FindParentPids ==
    /\ Called("_get_persistent_container")
    /\ Return(find_parent_pids(call.args))
    /\ UNCHANGED <<rd, self, docker, shell, last, trace>>

\* ---------------------------------------------------------------------
\* valkey.py, etcd.py, logstash.py: the image recipes.  An image is its class
\* with the pull request and the configuration it was made from; a public
\* image is the str that names it.  A dockerfile is its sequence of lines
\* (blank lines left out), a script the sequence of its lines; a path under
\* /home is the token "/home/" and the rest.
\* ---------------------------------------------------------------------
Public(name) == [cls |-> "str", name |-> <<name>>]

isinstance_Image(x) == x.cls # "str"

Recipe(cls, image) == [image EXCEPT !.cls = cls]

\* valkey.py 22-23, 130-134; etcd.py 22-23, 72-73; logstash.py 22-23, 119-120
dependency(image) ==
    CASE image.cls = "ValkeyImageDefault" -> Recipe("ValkeyImageBase", image)
      [] image.cls = "ValkeyImageBase" -> Public("ubuntu:22.04")
      [] image.cls = "EtcdImageDefault" -> Recipe("EtcdImageBase", image)
      [] image.cls = "EtcdImageBase" -> Public("golang:latest")
      [] image.cls = "LogstashImageDefault" -> Recipe("LogstashImageBase", image)
      [] image.cls = "LogstashImageBase" -> Public("ubuntu:latest")

TaskRecipes == {"ValkeyImageDefault", "EtcdImageDefault", "LogstashImageDefault"}

\* valkey.py 25-26, 136-137 and the like
image_name(image) == lower(<<image.pr.org, "/", image.pr.repo>>)

\* valkey.py 28-29, 139-140 and the like
image_tag(image) ==
    IF image.cls \in TaskRecipes THEN <<"pr-", ToString(image.pr.number)>> ELSE <<"base">>

File(dir, name, content) == [dir |-> dir, name |-> name, content |-> content]

\* valkey.py 155-170, etcd.py 99-114, logstash.py 145-160
check_git_changes ==
    <<<<"#!/bin/bash">>, <<"set -e">>,
      <<"if ! git rev-parse --is-inside-work-tree > /dev/null 2>&1; then">>,
      <<"echo \"check_git_changes: Not inside a git repository\"">>, <<"exit 1">>, <<"fi">>,
      <<"if [[ -n $(git status --porcelain) ]]; then">>,
      <<"echo \"check_git_changes: Uncommitted changes\"">>, <<"exit 1">>, <<"fi">>,
      <<"echo \"check_git_changes: No uncommitted changes\"">>, <<"exit 0">>>>

\* the lines that every script of a task starts with
script_head(pr) == <<<<"#!/bin/bash">>, <<"set -e">>, <<"cd", "/home/", pr.repo>>>>

\* valkey.py 176-184, etcd.py 123-133, logstash.py 169-179
prepare(image) ==
    script_head(image.pr)
    \o <<<<"git reset --hard">>, <<"bash", "/home/", "check_git_changes.sh">>,
         <<"git checkout", image.pr.base_sha>>, <<"bash", "/home/", "check_git_changes.sh">>>>
    \o CASE image.cls = "EtcdImageDefault" ->
                <<<<"bash", "/home/", "resolve_go_file.sh", "/home/", image.pr.repo>>,
                  <<"go test -v -count=1 ./... || true">>>>
         [] image.cls = "LogstashImageDefault" -> <<<<"./gradlew clean test --continue || true">>>>
         [] OTHER -> <<>>

\* the commands that build the repository and run its tests
test_commands(image) ==
    CASE image.cls = "ValkeyImageDefault" -> <<<<"make distclean">>, <<"make -j4">>, <<"make test">>>>
      [] image.cls = "EtcdImageDefault" -> <<<<"go test -v -count=1 ./...">>>>
      [] image.cls = "LogstashImageDefault" -> <<<<"./gradlew clean test --continue">>>>

\* valkey.py 203, 217 apply with --whitespace=nowarn
git_apply(image, patches) ==
    <<(IF image.cls = "ValkeyImageDefault" THEN <<"git apply --whitespace=nowarn">>
       ELSE <<"git apply">>) \o patches>>

\* etcd.py 142-166, its lines kept whole
resolve_go_file ==
    <<<<"#!/bin/bash">>, <<"if [ -z \"$1\" ]; then ... fi">>, <<"REPO_PATH=\"$1\"">>,
      <<"find \"$REPO_PATH\" -type f -name \"*.go\" | while read -r file; do ... done">>,
      <<"echo \"Done!\"">>>>

\* logstash.py 39-61, its lines kept whole
config_gradle ==
    <<<<"#!/bin/bash">>, <<"set -e">>,
      <<"echo 'export GRADLE_USER_HOME=/root/.gradle' >> ~/.bashrc">>, <<"source ~/.bashrc">>,
      <<"PROXY_SETTINGS=\"\"">>, <<"GRADLE_PROPERTIES=\"$HOME/.gradle/gradle.properties\"">>,
      <<"if [ ! -d \"$HOME/.gradle\" ]; then ... fi">>,
      <<"if [ ! -f \"$GRADLE_PROPERTIES\" ]; then ... fi">>,
      <<"if ! grep -q \"systemProp.http.proxyHost\" \"$GRADLE_PROPERTIES\"; then ... fi">>>>

\* no script beside the common ones
helper_scripts_none(image) == <<>>

\* etcd.py 139-169: the script that prepare.sh of etcd calls
helper_scripts(image) ==
    IF image.cls = "EtcdImageDefault" THEN <<File(".", "resolve_go_file.sh", resolve_go_file)>>
    ELSE <<>>

\* valkey.py 145-241, etcd.py 84-211, logstash.py 34-64, 131-225
files(image) ==
    IF image.cls \in TaskRecipes
    THEN <<File(".", "fix.patch", <<<<image.pr.fix_patch>>>>),
           File(".", "test.patch", <<<<image.pr.test_patch>>>>),
           File(".", "check_git_changes.sh", check_git_changes),
           File(".", "prepare.sh", prepare(image))>>
         \o helper_scripts(image)
         \o <<File(".", "run.sh", script_head(image.pr) \o test_commands(image)),
              File(".", "test-run.sh",
                   script_head(image.pr) \o git_apply(image, <<"/home/", "test.patch">>)
                   \o test_commands(image)),
              File(".", "fix-run.sh",
                   script_head(image.pr)
                   \o git_apply(image, <<"/home/", "test.patch", "/home/", "fix.patch">>)
                   \o test_commands(image))>>
    ELSE IF image.cls = "LogstashImageBase"
    THEN <<File(".", "config_gradle.sh", config_gradle)>>
    ELSE <<>>

\* spec-modelled: Image.image_full_name, the name and the tag of an image
image_full_name(image) == image_name(image) \o <<":">> \o image_tag(image)

\* for file in self.files(): copy_commands += f"COPY {file.name} /home/\n"
copy_commands(image) == [i \in DOMAIN files(image) |-> <<"COPY", files(image)[i].name, "/home/">>]

\* valkey.py 42-45 and the like
code(image) ==
    IF image.config.need_clone
    THEN <<"RUN git clone", "https://github.com/", image.pr.org, "/", image.pr.repo, ".git",
           "/home/", image.pr.repo>>
    ELSE <<"COPY", image.pr.repo, "/home/", image.pr.repo>>

\* valkey.py 47-60, etcd.py 47-57, logstash.py 80-103: what a base image installs
toolchain(image) ==
    CASE image.cls = "ValkeyImageBase" ->
            <<<<"WORKDIR /home/">>, <<"ENV DEBIAN_FRONTEND=noninteractive">>,
              <<"ENV LANG=C.UTF-8">>, <<"ENV LC_ALL=C.UTF-8">>,
              <<"RUN apt update && apt install -y git make gcc ...">>, code(image)>>
      [] image.cls = "EtcdImageBase" -> <<<<"WORKDIR /home/">>, code(image)>>
      [] image.cls = "LogstashImageBase" ->
            <<<<"ENV JAVA_TOOL_OPTIONS=...">>, <<"ENV DEBIAN_FRONTEND=noninteractive">>,
              <<"ENV LANG=C.UTF-8">>, <<"ENV LC_ALL=C.UTF-8">>, <<"WORKDIR /home/">>,
              <<"RUN apt update && apt install -y gnupg ca-certificates git curl">>,
              <<"RUN curl -s https://repos.azul.com/azul-repo.key | ...">>,
              <<"RUN apt update && apt install -y zulu11-jdk">>, code(image)>>
            \o copy_commands(image) \o <<<<"RUN", "bash", "/home/", "config_gradle.sh">>>>

\* valkey.py 36-60, 243-264; etcd.py 36-57, 213-234; logstash.py 66-103, 227-248
dockerfile(image) ==
    IF image.cls \in TaskRecipes
    THEN <<<<"FROM">> \o image_name(dependency(image)) \o <<":">> \o image_tag(dependency(image)),
           <<"{self.global_env}">>>>
         \o copy_commands(image)
         \o <<<<"RUN", "bash", "/home/", "prepare.sh">>, <<"{self.clear_env}">>>>
    ELSE <<<<"FROM">> \o (IF isinstance_Image(dependency(image))
                          THEN image_full_name(dependency(image))
                          ELSE dependency(image).name),
           <<"{self.global_env}">>>>
         \o toolchain(image) \o <<<<"{self.clear_env}">>>>

\* the images from a recipe down to the public image it rests on, each with
\* what is built from it, as long as there are at most `layers` of them
RECURSIVE walk(_, _)
walk(image, layers) ==
    IF ~isinstance_Image(image) THEN <<image>>
    ELSE IF layers = 0 THEN <<>>
    ELSE <<[cls |-> image.cls, image_name |-> image_name(image), image_tag |-> image_tag(image),
            files |-> files(image), dockerfile |-> dockerfile(image)]>>
         \o walk(dependency(image), layers - 1)

MaxLayers == 3
MaxNumber == 2

\* the pull requests of the three repositories
PullRequests ==
    {[org |-> repository[1], repo |-> repository[2], number |-> number, base_sha |-> "1f2e3d",
      fix_patch |-> "fix", test_patch |-> "test"] :
        repository \in {<<"valkey-io", "valkey">>, <<"Valkey-IO", "valkey">>,
                        <<"etcd-io", "etcd">>, <<"elastic", "logstash">>,
                        <<"Elastic", "logstash">>},
        number \in 1..MaxNumber}

\* Valkey, Etcd, Logstash: dependency() of the instance of a pull request
Instance_dependency(pr, config) ==
    [cls |-> CASE pr.repo = "valkey" -> "ValkeyImageDefault"
               [] pr.repo = "etcd" -> "EtcdImageDefault"
               [] pr.repo = "logstash" -> "LogstashImageDefault",
     pr |-> pr, config |-> config]

TaskImages ==
    {Instance_dependency(pr, [need_clone |-> need_clone]) :
        pr \in PullRequests, need_clone \in BOOLEAN}

\* the image of a task and the images under it
BuildRecipes ==
    /\ Called("dependency")
    /\ Return(walk(call.args, MaxLayers))
    /\ UNCHANGED <<rd, self, docker, shell, last, trace>>

\* utils.py 785-808: the actions given to action_hacking, of at most MaxAction
\* tokens
MaxAction == 3
ActionTokens == {"./gradlew", "npm run", "yarn run", "ok", " ", NL}

HackedActions == Strings(ActionTokens, MaxAction)

ActionHacking ==
    /\ Called("action_hacking")
    /\ Return(action_hacking(call.args))
    /\ UNCHANGED <<rd, self, docker, shell, last, trace>>

InitCall ==
    /\ \/ \E args \in EnvironmentArgumentsValues : call = NewCall("EnvironmentArguments", args)
       \/ \E observation \in Observations : call = NewCall("step_finish", observation)
       \/ \E buffer \in Buffers :
             call = NewCall("_check_for_too_many_non_unicode_bytes", buffer)
       \/ \E test_log \in Logs : call = NewCall("parse_log", test_log)
       \/ \E test_log \in ValkeyLogs : call = NewCall("Valkey.parse_log", test_log)
       \/ \E test_log \in LogstashLogs : call = NewCall("Logstash.parse_log", test_log)
       \/ \E polls \in Polls : call = NewCall("_get_persistent_container", polls)
       \/ \E action \in HackedActions : call = NewCall("action_hacking", action)
       \/ \E image \in TaskImages : call = NewCall("dependency", image)
    /\ rd = Unused /\ self = Unused /\ docker = Unused /\ shell = Unused /\ last = Unused
    /\ trace = <<>>

NextCall ==
    \/ Construct
    \/ StepEnd
    \/ CheckUnicode
    \/ ParseLog
    \/ ValkeyParseLog
    \/ LogstashParseLog
    \/ FindParentPids
    \/ ActionHacking
    \/ BuildRecipes

SpecCall == InitCall /\ [][NextCall]_vars

(***************************************************************************)
(* Claims on the reader (SpecReader)                                       *)
(***************************************************************************)
ReaderDone == rd.pc = "done"

\* C1: a command with exit status k that finishes before both deadlines makes the
\* reader return normally with recorded exit code k, for every split of the
\* output into reads and every text the command prints.
C1_ExitCodeRecorded ==
    (ReaderDone /\ rd.in_time /\ ~rd.poll)
        => (rd.result.kind = "ok" /\ returncode_of(rd.result) = <<rd.k>>)

\* the output without the line terminator of its last line
WithoutFinalNewline(out) ==
    IF out # <<>> /\ out[Len(out)] = NL THEN SubSeq(out, 1, Len(out) - 1) ELSE out

NoSentinel(out) == ~Contains(out, PROCESS_DONE_MARKER_START)

C6_DualDeadlines ==
    (ReaderDone /\ ~rd.process_done /\ ~rd.poll) =>
        /\ rd.exit_time = Min(rd.start_time + rd.timeout_duration,
                              rd.last_chunk + rd.no_output_timeout_duration)
        /\ rd.result.kind \in {"TimeoutError", "NoOutputTimeoutError"}
        /\ rd.result.kind = "TimeoutError"
              <=> rd.current_time - rd.start_time >= rd.timeout_duration
        /\ rd.result.kind = "NoOutputTimeoutError"
              <=> /\ rd.current_time - rd.last_chunk >= rd.no_output_timeout_duration
                  /\ rd.current_time - rd.start_time < rd.timeout_duration

\* a no-output timeout after the deadline was moved by a read
C6_Witness ==
    /\ ReaderDone /\ ~rd.poll /\ rd.result.kind = "NoOutputTimeoutError"
    /\ rd.last_chunk > rd.start_time

(***************************************************************************)
(* Claims on the session (Spec)                                            *)
(***************************************************************************)
HasEffect(op) == \E i \in 1..Len(trace) : trace[i].op = op

Writes == SelectSeq(trace, LAMBDA e : e.op = "write")

\* the last call wrote a syntax check to the shell and nothing else, and the
\* check came back with a non-zero exit code
SyntaxCheckFailed ==
    /\ Len(Writes) = 1
    /\ Head(Writes[1].text) = BASH_N
    /\ \E i \in 1..Len(trace) :
          /\ trace[i].op = "exit_code"
          /\ isdigit(trace[i].text)
          /\ int(trace[i].text) # 0

ContainerTouched == HasEffect("terminate") \/ HasEffect("pause") \/ HasEffect("remove")

\* C2: in end-marker mode a send that returns normally returns the output and
\* the exit code of the command it sent: `ok` prints the line a and exits 0, and
\* `fail` prints the line failed and exits 1.
C2_SendGetsItsOwnResult ==
    (self.communicate_method = "end-marker" /\ last.op = "step" /\ last.exc = ""
        /\ ~last.done /\ self.returncode # <<>> /\ Len(Writes) = 2)
    => /\ last.input = <<"ok">> => strip(last.val) = <<"a">> /\ self.returncode = <<0>>
       /\ last.input = <<"fail">> => strip(last.val) = <<"failed">> /\ self.returncode = <<1>>

\* C4: during a call of communicate the shell executes a command only after
\* the command text itself has been written to it: nothing of the command runs
\* while only the syntax check has been written.
C4_CheckExecutesNothing ==
    last.op = "communicate"
    => \A i \in 1..Len(trace) :
          trace[i].op = "exec"
          => \E j \in 1..(i - 1) :
                /\ trace[j].op = "write"
                /\ trace[j].text \in {with_newline(last.input),
                                      with_newline(last.input) \o command_suffix}

C7_StepNeverRaises == last.op = "step" => last.exc = ""

\* C8: a step in which the text captured as an exit code is not a string of
\* decimal digits closes the session and returns done=True with exit_status
\* early_exit.
C8_BadExitCodeEndsEpisode ==
    (last.op = "step"
        /\ \E i \in 1..Len(trace) : trace[i].op = "exit_code" /\ ~isdigit(trace[i].text))
    => /\ last.exc = ""
       /\ last.done
       /\ last.exit_status = <<"early_exit">>
       /\ ~shell.alive

\* C9: close never raises, in whatever state it is called.
C9_CloseNeverRaises == last.op = "close" => last.exc = ""

\* C10: a close that goes through terminates the shell process before it
\* touches the container; in persistent mode it never removes the container and
\* pauses it exactly when the container object exists and its status is not
\* paused, exited, dead or stopping; in non-persistent mode it never pauses the
\* container and force-removes it exactly when the container object exists; a
\* pause or remove that fails does not make close raise.
C10_CloseContainerActions ==
    /\ (last.op = "close" /\ last.exc = "")
       => /\ HasEffect("terminate")
          /\ \A i \in 1..Len(trace) :
                trace[i].op \in {"pause", "remove"}
                => \E j \in 1..(i - 1) : trace[j].op = "terminate"
          /\ self.persistent
             => /\ ~HasEffect("remove")
                /\ HasEffect("pause")
                   <=> /\ ~self.container_obj.is_none
                       /\ self.container_obj.status
                              \notin {"paused", "exited", "dead", "stopping"}
          /\ ~self.persistent
             => /\ ~HasEffect("pause")
                /\ HasEffect("remove") <=> ~self.container_obj.is_none
    /\ (last.op = "close" /\ self.container # "None") => last.exc = ""

\* a close in persistent mode whose pause failed: the container was not running
C10_Witness ==
    /\ last.op = "close" /\ last.exc = ""
    /\ self.persistent
    /\ HasEffect("pause")
    /\ docker.state # "paused"

(***************************************************************************)
(* Claims on the arguments, step, the reader's check and the log parser   *)
(***************************************************************************)
Blank(s) == \A i \in 1..Len(s) : s[i] \in Whitespace

\* C11: the construction of EnvironmentArguments raises ValueError when
\* cache_task_images is set together with a container_name that is not None,
\* and when container_name is empty or all whitespace; so arguments that were
\* constructed with a container_name have a name that is not blank and no
\* caching of task images.
C11_PersistentArgumentsAreValid ==
    Returned("EnvironmentArguments") =>
        LET a == call.args
        IN  /\ (a.cache_task_images /\ a.container_name # None)
                  => call.result.exc = "ValueError"
            /\ (a.container_name # None /\ Blank(a.container_name))
                  => call.result.exc = "ValueError"
            /\ (call.result.exc = "" /\ a.container_name # None)
                  => ~Blank(a.container_name) /\ ~a.cache_task_images

\* caching together with the empty name: rejected by the second check only
C11_Witness ==
    /\ Returned("EnvironmentArguments")
    /\ call.args.cache_task_images /\ call.args.container_name = <<>>
    /\ call.result.exc = "ValueError"

\* C12: a reset with apply_test_patch that returns has copied the test patch
\* into the container and applied it; a reset without it has not.
C12_ResetAppliesTestPatch ==
    (last.op = "reset" /\ last.exc = "")
        => (last.input = <<"apply_test_patch">>
               <=> \E i \in 1..Len(trace) : trace[i] = Effect("cp", <<"test.patch">>))

\* a call of step has just been made (a step of Spec from the unprimed state)
StepCalled == last'.op = "step" /\ last'.n = last.n + 1

\* C13: step on an action that is `skip` after trimming returns `Skipped`,
\* done=True and exit_status `skipped`, writes nothing to the shell and leaves
\* the environment, the container and the shell as they were.
C13_SkipChangesNothing ==
    [][(StepCalled /\ strip(last'.input) = <<"skip">>)
          => /\ last'.exc = "" /\ last'.val = <<"Skipped">>
             /\ last'.done /\ last'.exit_status = <<"skipped">>
             /\ trace' = <<>>
             /\ self' = self /\ docker' = docker /\ shell' = shell]_vars

\* a skip with surrounding whitespace on a session with a running shell
C13_Witness ==
    /\ last.op = "step" /\ last.input = <<" ", "skip", NL>> /\ last.done
    /\ shell.alive /\ self.returncode # <<>>

\* the actions of Actions whose name starts with exit_
ExitNames == {a \in Actions : a \in ExitActions \/ a = <<"exit_forfeit">>}

\* C14: step on an action whose name starts with exit_ writes `submit` at most
\* once, raises nothing and ends the episode: with exit_status
\* `submitted (<action>)` and the submission when the output of submit carries
\* one that is not blank, with exit_status <action> otherwise.
C14_ExitActionsEndEpisode ==
    (last.op = "step" /\ last.input \in ExitNames)
        => /\ last.exc = "" /\ last.done
           /\ Len(SelectSeq(Writes, LAMBDA e : StartsWith(e.text, <<"submit">>))) <= 1
           /\ \/ last.exit_status = last.input /\ last.submission = <<>>
              \/ /\ last.exit_status = <<"submitted (">> \o last.input \o <<")">>
                 /\ ~Blank(last.submission)

Payloads(text) ==
    {SubSeq(text, i + 1, j - 1) :
        i \in {x \in 1..Len(text) : text[x] = SUB_OPEN},
        j \in {x \in 1..Len(text) : text[x] = SUB_CLOSE}} \ {<<>>}

\* C16: when the output of an action contains a submission with a payload P
\* that is not blank, step ends the episode with exit_status `submitted` and
\* info['submission'] is P verbatim, whatever the length of the output.
C16_SubmissionVerbatim ==
    (Returned("step_finish") /\ \E P \in Payloads(call.args) : ~Blank(P))
        => /\ call.result.done /\ call.result.exit_status = <<"submitted">>
           /\ call.result.submission \in Payloads(call.args)

\* the text between the first opening marker of text and the last closing
\* marker after it is blank
BlankSubmission(text) ==
    \E i, j \in 1..Len(text) :
        /\ i < j /\ text[i] = SUB_OPEN /\ text[j] = SUB_CLOSE
        /\ \A x \in 1..(i - 1) : text[x] # SUB_OPEN
        /\ \A x \in (j + 1)..Len(text) : text[x] # SUB_CLOSE
        /\ Blank(SubSeq(text, i + 1, j - 1))

\* C17: when the submission markers are in the output of an action and the
\* payload they enclose is empty or all whitespace, step returns done=True
\* with exit_status `submitted`, info['submission'] None and observation None,
\* and raises nothing.
C17_BlankSubmissionIsNone ==
    (Returned("step_finish") /\ BlankSubmission(call.args))
        => /\ call.result.exc = "" /\ call.result.done
           /\ call.result.exit_status = <<"submitted">>
           /\ call.result.submission = None
           /\ call.result.observation = None

\* a payload of one blank after some output
C17_Witness ==
    /\ Returned("step_finish") /\ call.args = <<"d", SUB_OPEN, " ", SUB_CLOSE>>
    /\ call.result.submission = None

\* C18: no observation that step returns for a shell action is longer than
\* 40,003 characters, on any path on which step returns.
C18_ObservationBounded ==
    (last.op = "step" /\ last.exc = "" /\ ~is_skip(last.input) /\ last.input \notin ExitActions)
        => len_bytes(last.val) <= 40003

\* C19: the check of the reader raises UnicodeError exactly when more than
\* 10% of the bytes of the buffer are undecodable, wherever they lie.
C19_UnicodeErrorAboveTenPercent ==
    Returned("_check_for_too_many_non_unicode_bytes")
        => (call.result.exc = "UnicodeError"
               <=> 10 * Cardinality(InvalidOffsets(call.args)) > len_bytes(call.args))

\* C20: the result of the etcd parser never has a test name in both passed
\* and failed, whatever the order of the lines and also for subtests rolled
\* up to their parent; `--- PASS: T` then `--- FAIL: T` leaves T failed only.
C20_PassedAndFailedDisjoint ==
    Returned("parse_log")
        => /\ call.result.passed_tests \cap call.result.failed_tests = {}
           /\ call.args = <<"--- PASS:", " ", "T", NL, "--- FAIL:", " ", "T", NL>>
                 => (<<"T">> \in call.result.failed_tests
                        /\ <<"T">> \notin call.result.passed_tests)

\* C21: the result of the valkey parser never has a test name in both passed
\* and failed: `[ok]` then `[err]` or `[exception]` ends in failed only, and
\* failed then `[ok]` stays in failed only.
C21_ValkeyPassedAndFailedDisjoint ==
    Returned("Valkey.parse_log")
        => call.result.passed_tests \cap call.result.failed_tests = {}

\* a log in which a line that FAILED names a test that a line passes
FailsAndPasses(test_log) ==
    \E i, j \in 1..Len(splitlines(test_log)), k \in 1..2, l \in 1..3 :
        /\ failed_res(splitlines(test_log)[i])[k] # <<>>
        /\ failed_res(splitlines(test_log)[i])[k] = passed_res(splitlines(test_log)[j])[l]

\* C22: the result of the Gradle parser never has a name in both passed and
\* failed, in every order of the lines: a name matched as passed and as FAILED
\* (before or after) is in failed only.
C22_LogstashPassedAndFailedDisjoint ==
    Returned("Logstash.parse_log")
        => /\ call.result.passed_tests \cap call.result.failed_tests = {}
           /\ \A i \in 1..Len(splitlines(call.args)), k \in 1..2 :
                 failed_res(splitlines(call.args)[i])[k] # <<>>
                     => /\ failed_res(splitlines(call.args)[i])[k] \in call.result.failed_tests
                        /\ failed_res(splitlines(call.args)[i])[k] \notin call.result.passed_tests

\* a task that is up to date and then FAILED, and comes out as failed
C22_Witness ==
    /\ Returned("Logstash.parse_log") /\ FailsAndPasses(call.args)
    /\ call.result.failed_tests = {<<"x">>} /\ call.result.passed_tests = {}

\* the names that a line of a log marks, as the parser fn stores them: the
\* groups that the patterns of the list capture (rolled up to the parent by
\* the Go parser)
Groups(t) == {t[k] : k \in 1..Len(t)} \ {<<>>}

Marked(fn, kind, line) ==
    CASE fn = "parse_log" ->
             {get_base_name(n) : n \in Groups(CASE kind = "passed" -> re_pass_tests(strip(line))
                                                [] kind = "failed" -> re_fail_tests(strip(line))
                                                [] OTHER -> re_skip_tests(strip(line)))}
      [] fn = "Valkey.parse_log" ->
             Groups(CASE kind = "passed" -> re_passes(strip(line))
                      [] kind = "failed" -> re_fails(strip(line))
                      [] OTHER -> <<>>)
      [] OTHER ->
             Groups(CASE kind = "passed" -> passed_res(line)
                      [] kind = "failed" -> failed_res(line)
                      [] OTHER -> skipped_res(line))

Parsers == {"parse_log", "Valkey.parse_log", "Logstash.parse_log"}

ParserReturned == call.fn \in Parsers /\ call.pc = "done"

\* C23: in each of the three parsers a name that a line marks as skipped and
\* a later line marks as failed (for Go: after the roll-up to the parent) is
\* not in the skipped set of the result.
C23_SkippedThenFailedIsNotSkipped ==
    ParserReturned
        => \A j \in 1..Len(splitlines(call.args)), i \in 1..Len(splitlines(call.args)) :
              i < j => \A n \in Marked(call.fn, "skipped", splitlines(call.args)[i])
                                   \cap Marked(call.fn, "failed", splitlines(call.args)[j]) :
                           n \notin call.result.skipped_tests

\* C24: the Go parser gives the same sets and counts for a log and for the
\* log written twice, nested subtest names included.
C24_EtcdIdempotent ==
    Returned("parse_log") => parse_log(call.args \o call.args) = call.result

\* C25: the valkey parser and the Gradle parser give the same sets and counts
\* for a log and for the log written twice.
C25_ValkeyAndLogstashIdempotent ==
    /\ Returned("Valkey.parse_log")
          => Valkey_parse_log(call.args \o call.args) = call.result
    /\ Returned("Logstash.parse_log")
          => Logstash_parse_log(call.args \o call.args) = call.result

\* a log that is empty or ends with a line break
WholeLines(test_log) == test_log = <<>> \/ test_log[Len(test_log)] \in {NL, CR}

\* C25 (amended): for a log that is empty or ends with a line break, the
\* valkey parser and the Gradle parser give the same sets and counts for the
\* log and for the log written twice.
C25_IdempotentOnWholeLines ==
    (ParserReturned /\ WholeLines(call.args)) => C25_ValkeyAndLogstashIdempotent

\* a Gradle log of three lines with a passed, a failed and a skipped name
C25_Witness ==
    /\ Returned("Logstash.parse_log") /\ WholeLines(call.args)
    /\ call.result.passed_count = 1 /\ call.result.failed_count = 1
    /\ call.result.skipped_count = 1

\* the result of the parser fn on a log
Parse(fn, test_log) ==
    CASE fn = "parse_log" -> parse_log(test_log)
      [] fn = "Valkey.parse_log" -> Valkey_parse_log(test_log)
      [] OTHER -> Logstash_parse_log(test_log)

\* the logs made of the lines of a log in another order
Reordered(test_log) ==
    LET lines == splitlines(test_log)
        n == Len(lines)
    IN  {text_of([i \in 1..n |-> lines[p[i]]]) :
            p \in {q \in [1..n -> 1..n] : \A i, j \in 1..n : q[i] = q[j] => i = j}}

\* C26: in each of the three parsers the failed set of a log is the failed set
\* of every log that has the same lines in another order.
C26_FailedIsOrderIndependent ==
    ParserReturned
        => \A other \in Reordered(call.args) :
              Parse(call.fn, other).failed_tests = call.result.failed_tests

\* a Go log with a failed name whose passed set depends on the order of its lines
C26_Witness ==
    /\ Returned("parse_log") /\ call.result.failed_tests # {}
    /\ \E other \in Reordered(call.args) :
          Parse(call.fn, other).passed_tests # call.result.passed_tests

ResetCalled == last'.op = "reset" /\ last'.n = last.n + 1

\* the calls that change the state of a container, and the attachments of an
\* exec channel, in a trace
Transitions(log) ==
    SelectSeq(log, LAMBDA e : e.op \in {"run", "docker run", "start", "restart", "unpause"})

Attachments(log) == SelectSeq(log, LAMBDA e : e.op = "Popen")

\* C27: when the container of a persistent session exists at startup, exactly
\* the one transition that its status asks for is applied (created: start,
\* exited: restart, paused: unpause, running: none) and the exec channel is
\* attached to a running container; for every other status startup raises
\* and attaches no exec channel.
C27_StartupByStatus ==
    [][(ResetCalled /\ self.persistent /\ docker.state \notin {"absent", "removed"})
          => CASE docker.state = "created" ->
                      /\ Transitions(trace') = <<Effect("start", <<>>)>>
                      /\ Attachments(trace') = <<Effect("Popen", <<"running">>)>>
               [] docker.state = "exited" ->
                      /\ Transitions(trace') = <<Effect("restart", <<>>)>>
                      /\ Attachments(trace') = <<Effect("Popen", <<"running">>)>>
               [] docker.state = "paused" ->
                      /\ Transitions(trace') = <<Effect("unpause", <<>>)>>
                      /\ Attachments(trace') = <<Effect("Popen", <<"running">>)>>
               [] docker.state = "running" ->
                      /\ Transitions(trace') = <<>>
                      /\ Attachments(trace') = <<Effect("Popen", <<"running">>)>>
               [] OTHER ->
                      /\ last'.exc = "RuntimeError"
                      /\ Transitions(trace') = <<>> /\ Attachments(trace') = <<>>]_vars

\* a reset that found the container paused and attached to it running
C27_Witness ==
    /\ last.op = "reset" /\ self.persistent
    /\ Transitions(trace) = <<Effect("unpause", <<>>)>>
    /\ Attachments(trace) = <<Effect("Popen", <<"running">>)>>

\* C29: a container that a reset launches for a persistent session is
\* started detached and without auto-remove, and a container launched for a
\* non-persistent session is started with auto-remove.
C29_PersistenceDecidesAutoRemove ==
    last.op = "reset"
        => \A i \in 1..Len(trace) :
              /\ trace[i].op = "run"
                    => /\ Contains(trace[i].text, "detach")
                       /\ Contains(trace[i].text, "auto_remove") <=> ~self.persistent
              /\ trace[i].op = "docker run"
                    => /\ ~self.persistent
                       /\ Contains(trace[i].text, "--rm")

\* C28: persistent startup raises the alien-processes error whenever the
\* pids read last hold a process that is not bash (nor ps, nor PID 1),
\* whatever the number of bash processes, and whenever they hold more than
\* one bash process besides PID 1.
C28_AlienProcessesFail ==
    Returned("_get_persistent_container")
        => ((Len(call.result.other_pids) > 0 \/ Len(call.result.bash_pids) > 1)
               => call.result.exc = "RuntimeError")


(***************************************************************************)
(* Termination of the reader (SpecReaderLive)                              *)
(***************************************************************************)
\* the command never ended, the shell is alive, and output kept coming: reading
\* stopped before the no-output deadline, moved by the last read, was reached
FloodedToTheEnd ==
    /\ ReaderDone /\ rd.endless /\ ~rd.poll
    /\ rd.exit_time < rd.end_time_no_output

\* C30: every call of the reader terminates; when the shell keeps printing without
\* ever printing the end marker, the reader stops reading when the total deadline
\* is reached and raises TimeoutError with the body of what it has read.
C30_ReaderTerminates ==
    /\ <>ReaderDone
    /\ [](FloodedToTheEnd =>
             /\ rd.exit_time = rd.start_time + rd.timeout_duration
             /\ rd.result = Result("TimeoutError", body_of(decode(rd.buffer)), <<>>))

\* output kept coming past the first no-output deadline and up to the total one
C30_Witness ==
    /\ FloodedToTheEnd
    /\ rd.last_chunk >= rd.start_time + rd.no_output_timeout_duration
    /\ rd.result.kind = "TimeoutError" /\ rd.result.body # <<>>


(***************************************************************************)
(* Claims on interrupt, reset and the end of step (Spec)                   *)
(***************************************************************************)
Listings == SelectSeq(trace, LAMBDA e : e.op = "ps")

Kills == SelectSeq(trace, LAMBDA e : e.op = "kill")

\* the processes of a listing that are neither parents nor ps, npm, yarn or sh
UserProcesses(listing) ==
    SelectSeq(listing, LAMBDA x : x.pid \notin self.parent_pids
                                     /\ x.comm \notin {"ps", "npm", "yarn", "sh"})

Reversed(s) == [i \in 1..Len(s) |-> s[Len(s) + 1 - i]]

\* the process of the session's shell: PID 1 of a container run for the
\* session, the bash of the exec channel otherwise
ShellPid == IF self.persistent THEN 7 ELSE 1

\* C31: interrupt kills exactly the user processes of its listing, each once and
\* in the reverse of the order of the listing, and never PID 1 or the shell of
\* the session.
C31_InterruptKillsUserProcesses ==
    /\ Len(Listings) <= 1
    /\ Listings = <<>> => Kills = <<>>
    /\ Listings # <<>> =>
          Kills = [i \in 1..Len(UserProcesses(Listings[1].text)) |->
                      Effect("kill", <<Reversed(UserProcesses(Listings[1].text))[i]>>)]
    /\ \A i \in 1..Len(Kills) : Kills[i].text[1].pid \notin {1, ShellPid}

\* two processes were killed, the child of the child first
C31_Witness ==
    /\ Len(Kills) = 2
    /\ Kills[1].text[1].pid = 21 /\ Kills[2].text[1].pid = 20


\* step has met a timeout of its action, and interrupt has returned normally
Interrupted ==
    /\ last.op = "step" /\ last.exc = "" /\ Listings # <<>>
    /\ last.exit_status # <<"early_exit">>

\* the call made in this step sends the command `ok`, which prints the line a
SendsOk == last'.op \in {"step", "communicate"} /\ last'.input = <<"ok">>

\* C32: when interrupt has returned normally after a timeout, no user process is
\* left, the shell is idle, and the next send returns the output of its own
\* command.
C32_InterruptedSessionIsUsable ==
    [][Interrupted =>
          /\ get_pids(Bundle) = <<>>
          /\ shell.alive /\ shell.fg = "" /\ shell.stdin = <<>>
          /\ SendsOk => (last'.exc = "" /\ strip(last'.val) = <<"a">>)]_vars


(***************************************************************************)
(* Claims on the phases of reset (SpecReset)                               *)
(***************************************************************************)
\* the commands the shell has run in the call, in order
Ran == SelectSeq(trace, LAMBDA e : e.op \in {"exec", "failed"})

CleaningCommands == {clean_repository[i].input : i \in DOMAIN clean_repository}

\* the command reset sends after the cleaning command cmd
AfterCleaning(cmd) ==
    LET i == CHOOSE j \in DOMAIN clean_repository : clean_repository[j].input = cmd
    IN  IF i < Len(clean_repository) THEN clean_repository[i + 1].input
        ELSE install_and_environment[1].input

\* what the command cmd printed when it failed
FailureOutput(cmd) == (CHOOSE f \in Faults : f.cmd = cmd).out

Tolerated(cmd) ==
    /\ cmd \in CleaningCommands
    /\ \E m \in {"fatal", "not a git command"} : Contains(FailureOutput(cmd), m)

SessionClosed == ~shell.alive /\ HasEffect("terminate")

\* C33: a command of reset that is sent through communicate_with_handling and
\* exits non-zero aborts reset, with the session closed, a RuntimeError and no
\* later command sent, unless it is a cleaning command whose output contains
\* `fatal` or `not a git command`: then reset goes on with the next command.
C33_NonZeroExitAbortsReset ==
    last.op = "reset" =>
        \A i \in 1..Len(Ran) :
            Ran[i].op = "failed" =>
                IF Tolerated(Ran[i].text)
                THEN i < Len(Ran) /\ Ran[i + 1].text = AfterCleaning(Ran[i].text)
                ELSE last.exc = "RuntimeError" /\ i = Len(Ran) /\ SessionClosed


EnvironmentResets ==
    {<<"export CURRENT_FILE=">>, <<"export CURRENT_LINE=0">>, <<"export SEARCH_RESULTS=()">>,
     <<"export SEARCH_FILES=()">>, <<"export SEARCH_INDEX=0">>}

\* the phase of reset an effect belongs to, build-essential being installed
\* in phase `tools`; 0 for an effect of no phase (the scripts of the session
\* start, cd, uname)
Phase(e, tools) ==
    CASE e.op = "build" -> 1
      [] e.op \in StartEffects \ {"cp"} -> 2
      [] e.op = "cp" -> 6
      [] e.op \notin {"exec", "failed"} -> 0
      [] e.text = <<"ls">> -> 3
      [] e.text \in CleaningCommands -> 4
      [] e.text \in {<<"apt-get update">>, <<"apt-get install -y jq">>} -> 5
      [] e.text \in {<<"apt update">>, <<"apt install build-essential">>} -> tools
      [] e.text \in {<<"chmod +x /home/ignore.sh">>, <<"bash ../ignore.sh">>} -> 6
      [] e.text \in EnvironmentResets -> 7
      [] e.text = <<"rm /home/fix.patch">> -> 9
      [] OTHER -> 0

InPhaseOrder(tools) ==
    last.op = "reset" =>
        \A i, j \in 1..Len(trace) :
            (i < j /\ Phase(trace[i], tools) # 0 /\ Phase(trace[j], tools) # 0)
                => Phase(trace[i], tools) <= Phase(trace[j], tools)

\* C34 as stated: the phases of reset run in the order build, session start,
\* check of the repository directory, cleaning, helpers (jq and
\* build-essential), gitignore override, environment variables, removal of
\* fix.patch
C34_HelpersBeforeGitignore == InPhaseOrder(5)

\* C34: the phases of reset run in the order build, session start, check of
\* the repository directory, cleaning, jq, gitignore override, environment
\* variables, build-essential, removal of fix.patch
C34_ResetPhasesInOrder == InPhaseOrder(8)

C34_Witness ==
    /\ last.op = "reset" /\ last.exc = ""
    /\ HasEffect("build")
    /\ \E i \in 1..Len(Ran) : Ran[i].text = <<"apt install build-essential">>
    /\ Ran[Len(Ran)].text = <<"rm /home/fix.patch">>


(***************************************************************************)
(* Claims on action_hacking and on the Go parser (SpecCall)                *)
(***************************************************************************)
MarkerEcho == <<";", ECHO, PROCESS_DONE_MARKER_START, STATUS, PROCESS_DONE_MARKER_END, NL>>

NohupOpen == <<"(nohup">>
NohupClose == <<"& > /dev/null) && sleep 30 && cat /dev/null", NL>>

Occurrences(s, t) == Cardinality({i \in 1..Len(s) : s[i] = t})

HasGradle(action) == Contains(action, "./gradlew")
HasNpm(action) == Contains(action, "npm run") \/ Contains(action, "yarn run")

\* C35: action_hacking returns an action without `./gradlew`, `npm run` and
\* `yarn run` unchanged; it appends the marker echo once to an action with
\* `./gradlew`, wraps an action with `npm run` or `yarn run` once in the nohup
\* form, and for an action with both puts the marker echo inside the wrapper.
C35_ActionHacking ==
    Returned("action_hacking") =>
        LET action == call.args
            hacked == call.result
        IN  /\ (~HasGradle(action) /\ ~HasNpm(action)) => hacked = action
            /\ (HasGradle(action) /\ ~HasNpm(action)) => hacked = rstrip(action) \o MarkerEcho
            /\ (~HasGradle(action) /\ HasNpm(action)) => hacked = NohupOpen \o action \o NohupClose
            /\ (HasGradle(action) /\ HasNpm(action))
                  => hacked = NohupOpen \o rstrip(action) \o MarkerEcho \o NohupClose
            /\ Occurrences(hacked, PROCESS_DONE_MARKER_START) = IF HasGradle(action) THEN 1 ELSE 0
            /\ Occurrences(hacked, "(nohup") = IF HasNpm(action) THEN 1 ELSE 0

C35_Witness ==
    /\ Returned("action_hacking")
    /\ call.args = <<"./gradlew", "npm run", "yarn run">>
    /\ call.result = NohupOpen \o call.args \o MarkerEcho \o NohupClose


\* the name without its last `/`-segment, the whole name when it has no `/`
WithoutLastSegment(name) ==
    IF \E k \in 1..Len(name) : name[k] = "/"
    THEN CHOOSE p \in {SubSeq(name, 1, k - 1) : k \in 1..Len(name)} :
            \E k \in 1..Len(name) :
                /\ p = SubSeq(name, 1, k - 1) /\ name[k] = "/"
                /\ \A l \in (k + 1)..Len(name) : name[l] # "/"
    ELSE name

\* the names that the patterns of a list capture on the lines of a log
Matched(test_log, patterns(_)) ==
    {patterns(strip(splitlines(test_log)[i]))[j] :
        i \in 1..Len(splitlines(test_log)), j \in 1..Len(patterns(<<>>))} \ {<<>>}

RolledUp(names) == {WithoutLastSegment(n) : n \in names}

SubtestLog ==
    <<" ", "--- PASS:", " ", "T", "/", "a", " ", "(0.00s)", NL,
      " ", "--- FAIL:", " ", "T", "/", "b", " ", "(0.00s)", NL>>

\* C36: every name in passed, failed or skipped of the etcd parser is a
\* matched test name without its last `/`-segment; a log with a passing and a
\* failing subtest of one test yields the test in passed and in failed.
C36_SubtestsRollUp ==
    Returned("parse_log") =>
        /\ call.result.passed_tests \subseteq RolledUp(Matched(call.args, re_pass_tests))
        /\ call.result.failed_tests = RolledUp(Matched(call.args, re_fail_tests))
        /\ call.result.skipped_tests \subseteq RolledUp(Matched(call.args, re_skip_tests))
        /\ call.args = SubtestLog
              => (call.result.passed_tests = {<<"T">>} /\ call.result.failed_tests = {<<"T">>})

C36_Witness ==
    /\ Returned("parse_log")
    /\ call.args = SubtestLog
    /\ call.result.passed_tests = {<<"T">>}
    /\ call.result.failed_tests = {<<"T">>}


(***************************************************************************)
(* Claims on the image recipes (SpecCall)                                  *)
(***************************************************************************)
TaskFileNames ==
    {"fix.patch", "test.patch", "check_git_changes.sh", "prepare.sh", "run.sh", "test-run.sh",
     "fix-run.sh"}

FileNames(layer) == {layer.files[i].name : i \in DOMAIN layer.files}

FileNamed(layer, name) == CHOOSE f \in {layer.files[i] : i \in DOMAIN layer.files} : f.name = name

\* the scripts under /home that a script runs with bash
ScriptsCalled(content) ==
    {content[i][3] : i \in {k \in DOMAIN content :
                              Len(content[k]) >= 3 /\ SubSeq(content[k], 1, 2) = <<"bash", "/home/">>}}

Copies(layer) ==
    {i \in DOMAIN layer.dockerfile :
        Len(layer.dockerfile[i]) = 3 /\ layer.dockerfile[i][1] = "COPY"
            /\ layer.dockerfile[i][3] = "/home/"}

RunsPrepare(layer) ==
    {i \in DOMAIN layer.dockerfile : layer.dockerfile[i] = <<"RUN", "bash", "/home/", "prepare.sh">>}

\* C37: from the recipe of a task of valkey, etcd or logstash the walk along
\* dependency() ends at a public image; the dockerfile of the task starts
\* FROM the name and tag of the recipe under it, copies every file of files()
\* to /home, the seven files of a task and the scripts prepare.sh calls among
\* them, and runs prepare.sh after all the copies.
C37_TaskRecipes ==
    Returned("dependency") =>
        LET layers == call.result
            task == layers[1]
        IN  /\ Len(layers) >= 2 /\ layers[Len(layers)].cls = "str"
            /\ layers[2].cls # "str"
            /\ task.dockerfile[1]
                  = <<"FROM">> \o layers[2].image_name \o <<":">> \o layers[2].image_tag
            /\ TaskFileNames \cup ScriptsCalled(FileNamed(task, "prepare.sh").content)
                  \subseteq FileNames(task)
            /\ \A name \in FileNames(task) :
                  \E i \in Copies(task) : task.dockerfile[i][2] = name
            /\ RunsPrepare(task) # {}
            /\ \A i \in Copies(task), j \in RunsPrepare(task) : i < j

C37_Witness ==
    /\ Returned("dependency")
    /\ call.args.cls = "EtcdImageDefault"
    /\ "resolve_go_file.sh" \in FileNames(call.result[1])
    /\ Cardinality(Copies(call.result[1])) = 8
    /\ call.result[3] = Public("golang:latest")


(***************************************************************************)
(* Claims on the exceptions of step and on close (Spec)                    *)
(***************************************************************************)
Raises == SelectSeq(trace, LAMBDA e : e.op = "raise")

\* the send of the step made last raised an exception of class `kind`
SendRaised(kind) == last.op = "step" /\ Raises # <<>> /\ Head(Raises[1].text) = kind

\* the text that exception carried
Carried == Tail(Raises[1].text)

NoUserProcess == shell.alive /\ shell.fg = "" /\ get_pids(Bundle) = <<>>

\* C38: a step whose send raised NoOutputTimeoutError ends as one whose send
\* raised TimeoutError: the observation is the partial body, the output of
\* interrupt and the banner, interrupt has listed and killed the user
\* processes, and when interrupt failed the session is closed; after a
\* no-output timeout no command is left running.
C38_NoOutputTimeoutHandledAsTimeout ==
    /\ \A kind \in {"TimeoutError", "NoOutputTimeoutError"} :
          (SendRaised(kind) /\ last.exc = "") =>
              /\ StartsWith(last.val, Carried)
              /\ IF last.done
                 THEN /\ EndsWith(last.val, <<NL, "EXECUTION TIMED OUT AND INTERRUPT FAILED.">>)
                      /\ last.exit_status = <<"early_exit">> /\ ~shell.alive
                 ELSE /\ EndsWith(last.val, <<NL, "EXECUTION TIMED OUT">>)
                      /\ Listings # <<>> /\ NoUserProcess
    /\ SendRaised("NoOutputTimeoutError") =>
          /\ Listings # <<>>
          /\ ~shell.alive \/ shell.fg = ""

C38_Witness ==
    /\ SendRaised("NoOutputTimeoutError") /\ Carried # <<>>
    /\ last.exc = "" /\ ~last.done
    /\ Kills # <<>> /\ NoUserProcess


\* C39: when a step on a running shell returns done = False the shell is
\* still running and the step has not terminated it, whatever the action,
\* `exit` included.
StepReturnsNotDone == last'.op = "step" /\ last'.exc = "" /\ ~last'.done

C39_ShellRunsAfterStep ==
    [][(shell.alive /\ StepReturnsNotDone)
          => (shell'.alive /\ \A i \in 1..Len(trace') : trace'[i].op # "terminate")]_vars


Closes == {i \in 1..Len(trace) : trace[i].op = "close"}

ExitCodesMet == {i \in 1..Len(trace) : trace[i].op = "exit_code"}

\* the send of the call made last came back with an exit code other than 0
NonZeroExit ==
    /\ ExitCodesMet # {}
    /\ LET exit_code == trace[CHOOSE i \in ExitCodesMet : \A j \in ExitCodesMet : j <= i].text
       IN  int_accepts(exit_code) /\ int(exit_code) # 0

Handling == last.op = "communicate_with_handling"

\* the list except_error_msgs of that call
Allowed == {trace[1].text[i] : i \in DOMAIN trace[1].text}

ClosedAndRaised ==
    /\ last.exc = "RuntimeError" /\ ~shell.alive
    /\ \E c \in Closes : \A i \in ExitCodesMet : i < c

KeptOpen == last.exc = "" /\ Closes = {} /\ ~HasEffect("terminate")

Allowlisted == \E m \in Allowed : Contains(last.val, m)

\* C40: a step that calls close() returns done = True with exit status
\* early_exit; communicate_with_handling, on a non-zero exit code, returns the
\* output without closing when the output holds a text of its list and
\* otherwise closes the session and then raises RuntimeError; it closes the
\* session in no other case.
C40_NeverClosedSilently ==
    /\ (last.op = "step" /\ Closes # {})
          => (last.exc = "" /\ last.done /\ last.exit_status = <<"early_exit">>)
    /\ Handling =>
          /\ Closes # {} => (NonZeroExit /\ ClosedAndRaised)
          /\ NonZeroExit => IF Allowlisted THEN KeptOpen ELSE ClosedAndRaised

C40_Witness ==
    /\ Handling /\ NonZeroExit /\ KeptOpen
    /\ Allowed = {"syntax error"} /\ last.val = <<"syntax error">>
    /\ shell.alive

=============================================================================
